---- MODULE Spec2Model ----
(***************************************************************************)
(* LRE-Core decision execution core.                                       *)
(*                                                                         *)
(* Spec        : DecisionPipeline.execute driving DecisionContext, LRE_DP, *)
(*               ActionRegistry, EventBus.publish and the                  *)
(*               PersistenceEngine subscribed to the bus.                  *)
(* SpecPersist : the same calls with storage faults, an uninitialized or   *)
(*               unsubscribed engine and direct calls of log_decision.     *)
(* SpecState   : StateManager.update_state run by concurrent threads, each *)
(*               with its own SQLite connection.                           *)
(***************************************************************************)
EXTENDS Integers, Sequences, FiniteSets, Bags, TLC

(***************************************************************************)
(* Bounds of the model.                                                    *)
(***************************************************************************)
\* number of execute() calls explored with every behaviour of the
\* collaborators
MaxCalls == 1
\* number of execute() calls explored together with storage faults and
\* direct writes to the persistence engine
MaxDecisions == 2
\* number of threads calling into the StateManager
MaxWriters == 3
\* number of threads writing overlapping keys through the StateManager
MaxSerial == 3
\* number of DecisionContext scopes entered outside the pipeline
MaxScopes == 1
\* number of execute() calls made next to a second subscriber
MaxFaultCalls == 2

\* number of EventBus.publish calls the application makes in a row
MaxPublishes == 2
\* number of summaries written before and between filtered history queries
MaxRows == 2
\* number of summaries written and read back unfiltered
MaxRoundTrips == 2
\* number of process_decision calls made around a shutdown
MaxStopped == 1
\* number of process_decision calls made on a runtime from its construction
MaxProcessed == 3
\* number of bus calls made by handlers during one delivery
MaxBusCalls == 2
\* number of login messages handled by one AuthMiddleware
MaxLogins == 7
\* seconds that pass between two readings of the clock, and the last reading
TickSeconds == 150
MaxSeconds == 600

VARIABLES
    \* ---- decision pipeline --------------------------------------------
    pc,            \* pc[d]: where execute() call d is suspended
    input,         \* input[d]: the dml_input dict passed to call d
    ctx,           \* ctx[d]: the DecisionContext opened by call d
    ret,           \* ret[d]: what execute() returned
    events,        \* events[d]: the publishes made by call d, in order
    invoked,       \* invoked[d]: how often the action handler was awaited
    routed,        \* routed[d]: how often lri.calculate_route was called
    obs,           \* obs[d]: what the collaborators did when call d used them
    nextTrace,     \* source of fresh uuid4 trace ids
    registry,      \* ActionRegistry._handlers (the registered names)
    subscribers,   \* EventBus._subscribers: pattern -> list of handlers
    db,            \* PersistenceEngine.db: "none" before initialize()
    decision_log,  \* the decision_log table: a bag of rows
    faulted,       \* faulted[d]: a storage fault hit a write for call d
    delivered,     \* delivered[d]: the handler calls the bus made for the events
                   \* of call d
    log_ends,      \* the ways in which direct calls of log_decision have ended
    \* ---- state manager -------------------------------------------------
    process_state, \* rows of process_state: trace_id -> state map
    db_lock,       \* the writer holding SQLite's RESERVED lock, 0 if free
    wpc,           \* wpc[w]: where writer thread w is in update_state
    wop,           \* wop[w]: the arguments of writer w's call
    wcur,          \* wcur[w]: state_to_save computed inside the transaction
    wtxn,          \* wtxn[w]: uncommitted write of w's connection
    \* ---- event bus on its own ------------------------------------------
    pub,           \* the caller's latest EventBus.publish call and its tasks
    gone,          \* the (pattern, handler) pairs whose last call was unsubscribe
    \* ---- queries of the decision history --------------------------------
    clock,         \* the latest reading of time.time()
    answer,        \* the latest get_agent_history call: arguments and records
    logged,        \* the summaries handed to the persistence engine so far
    \* ---- registries and runtime ----------------------------------------
    registries,    \* registries[r]: _handlers of ActionRegistry object r
    default_registry, \* registry.py's module-level _default_registry
    reg_call,      \* the latest call of register, set_default_registry or action
    running,       \* LRERuntime._running
    stopping,      \* the calls that were in flight when shutdown was called
    \* ---- bus calls made by handlers --------------------------------------
    bus_lock,      \* EventBus._lock: the frame holding it, Unlocked if free
    frames,        \* the coroutines of one publish and of all it sets off
    pipeline,      \* LRERuntime.pipeline: NoPipeline until initialize builds it
    \* ---- transport ------------------------------------------------------
    validation,    \* the latest validate_message call: message and result
    \* ---- authentication -------------------------------------------------
    login_attempts, \* AuthMiddleware._login_attempts: username -> (attempts, last_time)
    utcnow,        \* datetime.now(timezone.utc), in seconds
    login,         \* the latest login message and what _handle_login answered
    history        \* per username: failed logins answered since the last
                   \* successful one, and when the latest fifth of them was

pipeVars == <<pc, input, ctx, ret, events, invoked, routed, obs, nextTrace,
              registry, subscribers, db, decision_log, faulted, delivered, log_ends>>
stateVars == <<process_state, db_lock, wpc, wop, wcur, wtxn>>
busVars == <<pub, gone>>
histVars == <<clock, answer, logged>>
regVars == <<registries, default_registry, reg_call>>
runVars == <<running, stopping>>
lockVars == <<bus_lock, frames>>
authVars == <<login_attempts, utcnow, login, history>>

extVars == <<lockVars, pipeline, validation, authVars>>
appVars == <<histVars, regVars, runVars, extVars>>
vars == <<pipeVars, stateVars, busVars, appVars>>

(***************************************************************************)
(* Values.                                                                 *)
(***************************************************************************)
Required == {"action", "agent_id", "payload"}
\* "" is a present but empty action name
ActionNames == {"system_ping", "bogus", ""}
AgentIds == {"a1"}
TerminalStatuses == {"executed", "failed", "rejected", "deferred"}
TerminalTopics == {"decision.completed", "decision.failed",
                   "decision.rejected", "decision.deferred"}

\* Python exceptions a collaborator may raise: type name and str(e)
Exceptions == {[type |-> "AttributeError", msg |-> "no attribute"],
               [type |-> "RuntimeError", msg |-> "boom"]}
NoExc == [type |-> "", msg |-> ""]

(***************************************************************************)
(* EventBus: shell-style topic matching (fnmatch) over the characters of   *)
(* the topic and of the subscription pattern.                              *)
(***************************************************************************)
DecisionDot == <<"d", "e", "c", "i", "s", "i", "o", "n", ".">>

TopicChars(t) ==
    CASE t = "decision.received"  -> DecisionDot \o <<"r", "e", "c", "e", "i", "v", "e", "d">>
      [] t = "decision.executing" -> DecisionDot \o <<"e", "x", "e", "c", "u", "t", "i", "n", "g">>
      [] t = "decision.completed" -> DecisionDot \o <<"c", "o", "m", "p", "l", "e", "t", "e", "d">>
      [] t = "decision.failed"    -> DecisionDot \o <<"f", "a", "i", "l", "e", "d">>
      [] t = "decision.rejected"  -> DecisionDot \o <<"r", "e", "j", "e", "c", "t", "e", "d">>
      [] t = "decision.deferred"  -> DecisionDot \o <<"d", "e", "f", "e", "r", "r", "e", "d">>
      [] t = "decision.*"         -> DecisionDot \o <<"*">>
      [] OTHER                    -> <<t>>

RECURSIVE fnmatch(_, _)
\* fnmatch.fnmatch(name, pat): '*' matches any run of characters, '?' one
fnmatch(name, pat) ==
    IF pat = <<>> THEN name = <<>>
    ELSE IF Head(pat) = "*"
         THEN fnmatch(name, Tail(pat))
              \/ (name # <<>> /\ fnmatch(Tail(name), pat))
         ELSE /\ name # <<>>
              /\ (Head(pat) = "?" \/ Head(pat) = Head(name))
              /\ fnmatch(Tail(name), Tail(pat))

\* EventBus._matches(subscription_pattern, topic)
Matches(subscription_pattern, topic) ==
    fnmatch(TopicChars(topic), TopicChars(subscription_pattern))

RECURSIVE HandlersToCall(_, _)
\* the handlers_to_call list built by publish: every handler of every
\* matching pattern, in table order
HandlersToCall(subs, topic) ==
    IF subs = <<>> THEN <<>>
    ELSE (IF Matches(Head(subs).pattern, topic) THEN Head(subs).handlers ELSE <<>>)
         \o HandlersToCall(Tail(subs), topic)

(***************************************************************************)
(* DecisionContext.                                                        *)
(***************************************************************************)
\* a handler's own return value; "None" stands for no value
NoHandlerResult == [status |-> "None"]

\* Python None as the context's result; a dict carries the keys it has
NoResult == [kind |-> "none", keys |-> {}, status |-> "", reason |-> "",
             available_actions |-> <<>>, result |-> NoHandlerResult,
             action |-> "", error |-> "", error_type |-> ""]

NoContext == [trace_id |-> 0, status |-> "none", errors |-> <<>>,
              metadata |-> <<>>, result |-> NoResult, ended |-> FALSE]

\* DecisionContext.add_metadata on an insertion-ordered dict of <<key, value>>
AddMetadata(c, key, value) ==
    [c EXCEPT !.metadata =
        IF \E i \in 1..Len(@) : @[i][1] = key
        THEN [i \in 1..Len(@) |-> IF @[i][1] = key THEN <<key, value>> ELSE @[i]]
        ELSE Append(@, <<key, value>>)]

\* metadata.get(key), "" when the key is absent
MetadataGet(md, key) ==
    IF \E i \in 1..Len(md) : md[i][1] = key
    THEN md[CHOOSE i \in 1..Len(md) : md[i][1] = key][2]
    ELSE ""

\* dict.get on the dml_input: "None" when the key is missing
InputGet(inp, key) ==
    IF key \notin inp.keys THEN "None"
    ELSE IF key = "action" THEN inp.action
    ELSE IF key = "agent_id" THEN inp.agent_id
    ELSE "payload"

\* DecisionContext.__init__ followed by __aenter__
\* mutant of NewContext: every context gets the same trace id
NewContext_OneTrace(inp, tid) ==
    AddMetadata(
        AddMetadata([NoContext EXCEPT !.trace_id = 1, !.status = "pending"],
                    "agent_id", InputGet(inp, "agent_id")),
        "action", InputGet(inp, "action"))

NewContext(inp, tid) ==
    AddMetadata(
        AddMetadata([NoContext EXCEPT !.trace_id = tid, !.status = "pending"],
                    "agent_id", InputGet(inp, "agent_id")),
        "action", InputGet(inp, "action"))

\* DecisionContext.mark_failed
MarkFailed(c, exc) ==
    [c EXCEPT !.status = "failed", !.errors = Append(@, exc.msg)]

\* mutant of SetResult: the status argument is dropped
SetResult_KeepStatus(c, result, status) ==
    [c EXCEPT !.result = result]

\* DecisionContext.set_result
SetResult(c, result, status) ==
    [c EXCEPT !.result = result, !.status = status]

\* DecisionContext.__aexit__ on the no-exception path: records end_time
AExit(c) == [c EXCEPT !.ended = TRUE]

\* mutant of AExitReturns: __aexit__ returns False on every path
AExitReturns_False(exc) == FALSE

\* the value __aexit__ returns: True, which suppresses the exception, when
\* it was entered with one
AExitReturns(exc) == exc # NoExc

\* DecisionContext.__aexit__(exc_type, exc_val, exc_tb) on both paths
AExitWith(c, exc) ==
    IF exc # NoExc THEN MarkFailed(AExit(c), exc) ELSE AExit(c)

\* DecisionContext.get_summary (latency_ms left out)
GetSummary(c, inp) ==
    [kind |-> "summary", status |-> c.status, trace_id |-> c.trace_id,
     decision |-> inp, result |-> c.result, errors |-> c.errors,
     metadata |-> c.metadata]

\* what a holder of a summary of call d reads in it now: get_summary puts
\* the context's own errors list and metadata dict into the summary, while
\* status, trace_id and result are the values of the moment
SeenNow(d, summary) ==
    [summary EXCEPT !.errors = ctx[d].errors, !.metadata = ctx[d].metadata]

NoInput == [keys |-> {}, action |-> "None", agent_id |-> "None"]

NoReturn == [kind |-> "none", status |-> "", trace_id |-> 0, decision |-> NoInput,
             result |-> NoResult, errors |-> <<>>, metadata |-> <<>>]

(***************************************************************************)
(* PersistenceEngine.                                                      *)
(***************************************************************************)
RECURSIVE JoinErrors(_)
\* ", ".join(errors)
JoinErrors(errs) ==
    IF errs = <<>> THEN <<>>
    ELSE IF Len(errs) = 1 THEN <<errs[1]>>
    ELSE <<errs[1], ", ">> \o JoinErrors(Tail(errs))

\* the row _insert_record binds to the INSERT statement
RowOf(summary) ==
    [trace_id |-> summary.trace_id,
     agent_id |-> InputGet(summary.decision, "agent_id"),
     action |-> InputGet(summary.decision, "action"),
     status |-> summary.status,
     input_payload |-> summary.decision,
     result_payload |-> summary.result,
     error_msg |-> IF summary.errors # <<>> THEN JoinErrors(summary.errors)
                   ELSE <<"NULL">>]

\* mutant of SchemaAccepts: trace_id is not declared PRIMARY KEY
SchemaAccepts_NoPrimaryKey(log, row) ==
    /\ row.agent_id # "None"
    /\ row.action # "None"
    /\ row.status \in {"executed", "failed", "rejected", "deferred"}

\* mutant of SchemaAccepts: the status column has no CHECK constraint
SchemaAccepts_NoCheck(log, row) ==
    /\ \A r \in BagToSet(log) : r.trace_id # row.trace_id
    /\ row.agent_id # "None"
    /\ row.action # "None"

\* the constraints of the decision_log table: PRIMARY KEY, NOT NULL, CHECK
SchemaAccepts(log, row) ==
    /\ \A r \in BagToSet(log) : r.trace_id # row.trace_id
    /\ row.agent_id # "None"
    /\ row.action # "None"
    /\ row.status \in {"executed", "failed", "rejected", "deferred"}

\* PersistenceEngine._insert_record: the table after the call. A storage
\* fault or a constraint violation raises inside the try and is swallowed.
InsertRecord(log, summary, fault) ==
    IF db = "none" THEN log
    ELSE IF fault \/ ~SchemaAccepts(log, RowOf(summary)) THEN log
    ELSE log (+) SetToBag({RowOf(summary)})

\* a nullable SQL value: <<>> is NULL, <<v>> the value v
Null == <<>>

RECURSIVE CountRows(_, _)
\* the number of rows of the table with one of the given statuses
CountRows(log, statuses) ==
    IF BagToSet(log) = {} THEN 0
    ELSE LET r == CHOOSE x \in BagToSet(log) : TRUE
             rest == [x \in BagToSet(log) \ {r} |-> log[x]]
         IN (IF r.status \in statuses THEN log[r] ELSE 0) + CountRows(rest, statuses)

\* the SQL aggregate SUM(CASE WHEN status = s THEN 1 ELSE 0 END): NULL over
\* a table without rows
SumCase(log, status) ==
    IF BagToSet(log) = {} THEN Null ELSE <<CountRows(log, {status})>>

\* PersistenceEngine.get_statistics (unique_agents and avg_latency_ms left
\* out): the empty dict without a database, else the row of aggregates
GetStatistics(log) ==
    IF db = "none" THEN [kind |-> "empty"]
    ELSE [kind |-> "row",
          total_decisions |-> <<CountRows(log, {r.status : r \in BagToSet(log)})>>,
          executed_count |-> SumCase(log, "executed"),
          failed_count |-> SumCase(log, "failed")]

\* PersistenceEngine._insert_record up to its except clause: the write is
\* skipped without a database, fails on a storage fault or a constraint
\* violation, and is committed otherwise
InsertAttempt(log, summary, fault) ==
    IF db = "none" THEN "skipped"
    ELSE IF fault \/ ~SchemaAccepts(log, RowOf(summary)) THEN "error"
    ELSE "committed"

\* mutant of InsertEnds: no except clause around the write
InsertEnds_NoCatch(attempt) ==
    IF attempt = "error" THEN "raised" ELSE "returned"

\* how _insert_record ends, and with it log_decision, log_decision_from_summary
\* and _on_decision_event, which only await it: a skipped or failed write is
\* logged and the method returns
InsertEnds(attempt) ==
    IF attempt \in {"skipped", "error"} THEN "logged" ELSE "returned"

RECURSIVE Calls(_, _, _, _, _)
\* the calls EventBus.publish makes for handlers_to_call, in order, with
\* the way each handler ended before _safe_execute
Calls(hs, log, topic, data, fault) ==
    IF hs = <<>> THEN <<>>
    ELSE <<[topic |-> topic, handler |-> Head(hs), data |-> data,
            ended |-> IF Head(hs) = "persist"
                      THEN InsertEnds(InsertAttempt(log, data, fault))
                      ELSE "returned"]>>
         \o Calls(Tail(hs),
                  IF Head(hs) = "persist" THEN InsertRecord(log, data, fault) ELSE log,
                  topic, data, fault)

RECURSIVE Deliver(_, _, _, _, _)
\* EventBus._safe_execute for each handler of handlers_to_call; the handler
\* "persist" is PersistenceEngine._on_decision_event
Deliver(hs, log, topic, data, fault) ==
    IF hs = <<>> THEN log
    ELSE Deliver(Tail(hs),
                 IF Head(hs) = "persist" THEN InsertRecord(log, data, fault) ELSE log,
                 topic, data, fault)

\* EventBus.publish(topic, ctx.get_summary()) made by execute() call d
Publish(d, topic, c, inp, fault) ==
    LET data == GetSummary(c, inp)
        hs == HandlersToCall(subscribers, topic)
    IN /\ events' = [events EXCEPT ![d] = Append(@, [topic |-> topic, data |-> data])]
       /\ decision_log' = Deliver(hs, decision_log, topic, data, fault)
       /\ faulted' = [faulted EXCEPT ![d] =
                         @ \/ (Deliver(hs, decision_log, topic, data, FALSE)
                               # Deliver(hs, decision_log, topic, data, fault))]
       /\ delivered' = [delivered EXCEPT ![d] =
                           @ \o Calls(hs, decision_log, topic, data, fault)]
       /\ UNCHANGED log_ends

(***************************************************************************)
(* JSON text of the payload columns: json.dumps on the way in, json.loads  *)
(* on the way out.  Python values are records tagged py, JSON documents    *)
(* records tagged json.                                                    *)
(***************************************************************************)
PyNone == [py |-> "None"]

PyStr(s) == [py |-> "str", s |-> s]

PyInt(n) == [py |-> "int", n |-> n]

PyList(items) == [py |-> "list", items |-> items]

PyTuple(items) == [py |-> "tuple", items |-> items]

\* a dict as the sequence of its items, in insertion order
PyDict(items) == [py |-> "dict", items |-> items]

\* dict.get(key): the value under the key, None without it
DictGet(d, key) ==
    IF \E i \in DOMAIN d.items : d.items[i].key = key
    THEN d.items[CHOOSE i \in DOMAIN d.items : d.items[i].key = key].val
    ELSE PyNone

\* the member name json.dumps writes for a dict key: a str as it is, an int
\* as its decimal text
JsonName(key) == IF key.py = "int" THEN ToString(key.n) ELSE key.s

RECURSIVE JsonDumps(_)
\* json.dumps: None is null, a list and a tuple are both an array, a dict an
\* object whose member names are strings
JsonDumps(v) ==
    CASE v.py = "None" -> [json |-> "null"]
      [] v.py = "str" -> [json |-> "string", s |-> v.s]
      [] v.py = "int" -> [json |-> "number", n |-> v.n]
      [] v.py \in {"list", "tuple"} ->
            [json |-> "array",
             items |-> [i \in DOMAIN v.items |-> JsonDumps(v.items[i])]]
      [] v.py = "dict" ->
            [json |-> "object",
             members |-> [i \in DOMAIN v.items |->
                            [name |-> JsonName(v.items[i].key),
                             val |-> JsonDumps(v.items[i].val)]]]

RECURSIVE JsonLoads(_)
\* json.loads: an array is a list, an object a dict with str keys
JsonLoads(doc) ==
    CASE doc.json = "null" -> PyNone
      [] doc.json = "string" -> PyStr(doc.s)
      [] doc.json = "number" -> PyInt(doc.n)
      [] doc.json = "array" ->
            PyList([i \in DOMAIN doc.items |-> JsonLoads(doc.items[i])])
      [] doc.json = "object" ->
            PyDict([i \in DOMAIN doc.members |->
                      [key |-> PyStr(doc.members[i].name),
                       val |-> JsonLoads(doc.members[i].val)]])

\* the row _insert_record binds to the INSERT statement at time now, with
\* the columns get_agent_history reads
StampedRow(summary, now) ==
    [trace_id |-> summary.trace_id,
     timestamp |-> now,
     agent_id |-> DictGet(summary.decision, PyStr("agent_id")),
     action |-> DictGet(summary.decision, PyStr("action")),
     status |-> summary.status,
     input_payload |-> JsonDumps(summary.decision),
     result_payload |-> JsonDumps(summary.result)]

\* the constraints of the decision_log table on such a row
StampedAccepts(log, row) ==
    /\ \A r \in BagToSet(log) : r.trace_id # row.trace_id
    /\ row.agent_id # PyNone
    /\ row.action # PyNone
    /\ row.status \in {"executed", "failed", "rejected", "deferred"}

\* Python truth of an optional argument: None, "" and 0 are false
Truthy(arg) == arg # Null /\ arg[1] \notin {PyStr(""), PyInt(0)}

\* the WHERE clause get_agent_history builds: a condition per truthy argument
Selected(row, agent_id, status, action, since_timestamp) ==
    /\ row.agent_id = agent_id
    /\ Truthy(status) => PyStr(row.status) = status[1]
    /\ Truthy(action) => row.action = action[1]
    /\ Truthy(since_timestamp) => row.timestamp > since_timestamp[1].n

\* ORDER BY timestamp DESC: the orders the database may return the rows in,
\* rows of equal timestamp in any order
NewestFirst(rows) ==
    {order \in [1..Cardinality(rows) -> rows] :
        /\ \A i, j \in DOMAIN order : i # j => order[i] # order[j]
        /\ \A i, j \in DOMAIN order :
              i < j => order[i].timestamp >= order[j].timestamp}

\* mutant of ReadRecord: the result column is handed back as stored
ReadRecord_NoLoads(row) ==
    [row EXCEPT !.input_payload = JsonLoads(row.input_payload)]

\* the record get_agent_history makes of a row: both JSON columns parsed,
\* the result column only if it holds text
ReadRecord(row) ==
    [row EXCEPT !.input_payload = JsonLoads(row.input_payload),
                !.result_payload = JsonLoads(row.result_payload)]

\* LIMIT ?: the first limit rows, all of them under a negative limit
Limited(order, limit) ==
    IF limit < 0 \/ limit >= Len(order) THEN order ELSE SubSeq(order, 1, limit)

\* PersistenceEngine.get_agent_history: the lists the call may return
GetAgentHistory(log, agent_id, limit, status, action, since_timestamp) ==
    IF db = "none" THEN {<<>>}
    ELSE LET rows == {r \in BagToSet(log) :
                        Selected(r, agent_id, status, action, since_timestamp)}
         IN {[i \in DOMAIN Limited(order, limit) |->
                 ReadRecord(Limited(order, limit)[i])] :
               order \in NewestFirst(rows)}

(***************************************************************************)
(* ActionRegistry and LRE_DP.                                              *)
(***************************************************************************)
\* ActionRegistry.get_handler: the handler registered last under name,
\* "None" when there is none
GetHandler(reg, name) ==
    IF \E i \in 1..Len(reg) : reg[i].name = name
    THEN reg[CHOOSE i \in 1..Len(reg) : reg[i].name = name].handler
    ELSE "None"

\* mutant of ListActions: the name registered last is left out
ListActions_DropLast(reg) == [i \in 1..(Len(reg) - 1) |-> reg[i].name]

\* ActionRegistry.list_actions
ListActions(reg) == [i \in 1..Len(reg) |-> reg[i].name]

\* ActionRegistry.has_action
HasAction(reg, name) == \E i \in 1..Len(reg) : reg[i].name = name

\* mutant of Register: a name already registered keeps its first handler
Register_KeepFirst(reg, name, handler) ==
    IF \E i \in 1..Len(reg) : reg[i].name = name
    THEN reg
    ELSE Append(reg, [name |-> name, handler |-> handler])

\* ActionRegistry.register: self._handlers[name] = handler, a dict
\* assignment that replaces the value of a key it has and adds the key last
\* otherwise
Register(reg, name, handler) ==
    IF \E i \in 1..Len(reg) : reg[i].name = name
    THEN [i \in 1..Len(reg) |->
             IF reg[i].name = name THEN [name |-> name, handler |-> handler]
             ELSE reg[i]]
    ELSE Append(reg, [name |-> name, handler |-> handler])

\* no registry: the value of _default_registry before set_default_registry
\* and of the decorator's registry argument when it is not given
NoRegistry == 0

\* the ActionRegistry objects of the application
Registries == {1, 2}

\* mutant of TargetRegistry: the default registry is preferred to the
\* explicit one
TargetRegistry_DefaultFirst(explicit, default) ==
    IF default # NoRegistry THEN default ELSE explicit

\* the decorator's target_registry = registry or _default_registry; an
\* ActionRegistry is true in Python whatever it holds
TargetRegistry(explicit, default) ==
    IF explicit # NoRegistry THEN explicit ELSE default

\* LRE_DP.execute_decision before the handler is awaited: the dict it
\* returns at once, or NoResult when a handler was found and is awaited
LookupResult(reg, inp) ==
    LET action_name == InputGet(inp, "action")
    IN IF action_name \in {"", "None"}
       THEN [NoResult EXCEPT !.kind = "dict", !.keys = {"status", "reason"},
                             !.status = "rejected",
                             !.reason = <<"Missing 'action' field">>]
       ELSE IF GetHandler(reg, action_name) = "None"
       THEN [NoResult EXCEPT !.kind = "dict",
                             !.keys = {"status", "reason", "available_actions"},
                             !.status = "rejected",
                             !.reason = <<"Unknown action: ", action_name>>,
                             !.available_actions = ListActions(reg)]
       ELSE NoResult

\* mutant of HandlerResult: no try/except around the handler, so its
\* exception escapes execute_decision
HandlerResult_NoCatch(inp, outcome) ==
    IF outcome.kind = "return"
    THEN [NoResult EXCEPT !.kind = "dict", !.keys = {"status", "result"},
                          !.status = "executed", !.result = outcome.value]
    ELSE [NoResult EXCEPT !.kind = "raise", !.error = outcome.exc.msg,
                          !.error_type = outcome.exc.type]

\* mutant of HandlerResult: the handler's own dict is returned as it is,
\* not wrapped under "result"
HandlerResult_PassThrough(inp, outcome) ==
    IF outcome.kind = "return"
    THEN [NoResult EXCEPT !.kind = "dict", !.keys = {"status"},
                          !.status = outcome.value.status]
    ELSE [NoResult EXCEPT !.kind = "dict",
                          !.keys = {"status", "action", "error", "error_type"},
                          !.status = "failed",
                          !.action = InputGet(inp, "action"),
                          !.error = outcome.exc.msg,
                          !.error_type = outcome.exc.type]

\* LRE_DP.execute_decision after the handler: outcome is what awaiting the
\* handler did, a return value or a raised exception
HandlerResult(inp, outcome) ==
    IF outcome.kind = "return"
    THEN [NoResult EXCEPT !.kind = "dict", !.keys = {"status", "result"},
                          !.status = "executed", !.result = outcome.value]
    ELSE [NoResult EXCEPT !.kind = "dict",
                          !.keys = {"status", "action", "error", "error_type"},
                          !.status = "failed",
                          !.action = InputGet(inp, "action"),
                          !.error = outcome.exc.msg,
                          !.error_type = outcome.exc.type]

(***************************************************************************)
(* The collaborators' behaviour, chosen by the environment.                *)
(***************************************************************************)
\* lpi.query_presence: answers, is absent, or raises
PresenceOutcomes ==
    {[kind |-> "answer", value |-> v, exc |-> NoExc] : v \in BOOLEAN}
    \cup {[kind |-> "absent", value |-> FALSE, exc |-> NoExc]}
    \cup {[kind |-> "raise", value |-> FALSE, exc |-> e] : e \in Exceptions}

\* lri.calculate_route: answers a route, is absent, or raises
RoutingOutcomes ==
    {[kind |-> "route", value |-> r, exc |-> NoExc] : r \in {"mesh", "direct"}}
    \cup {[kind |-> "absent", value |-> "", exc |-> NoExc]}
    \cup {[kind |-> "raise", value |-> "", exc |-> e] : e \in Exceptions}

\* the awaited action handler: returns a dict of its own, or raises
HandlerOutcomes ==
    {[kind |-> "return", value |-> [status |-> s], exc |-> NoExc] :
        s \in {"success", "rejected"}}
    \cup {[kind |-> "raise", value |-> NoHandlerResult, exc |-> e] : e \in Exceptions}

\* the dml_input dicts handed to execute; a field whose key is missing has
\* no value
Inputs ==
    {inp \in [keys : SUBSET Required, action : ActionNames \cup {"None"},
              agent_id : AgentIds \cup {"None"}] :
        /\ inp.action = "None" <=> "action" \notin inp.keys
        /\ inp.agent_id = "None" <=> "agent_id" \notin inp.keys}

\* every behaviour of the collaborators, with a storage that never faults
EnvAll ==
    [inputs |-> Inputs, presence |-> PresenceOutcomes, routing |-> RoutingOutcomes,
     handler |-> HandlerOutcomes, faults |-> {FALSE}, lre_dp |-> {"LRE_DP"}]

\* what obs records of an outcome: the answer, "absent", or the type raised
Observed(outcome) ==
    IF outcome.kind = "raise" THEN outcome.exc.type
    ELSE IF outcome.kind = "absent" THEN "absent"
    ELSE IF outcome.kind = "return" THEN "return"
    ELSE IF outcome.kind = "route" THEN "route"
    ELSE IF outcome.value THEN "true" ELSE "false"

NoObs == [presence |-> "none", routing |-> "none", handler |-> "none"]

\* the exception a call of a capability method ends with, NoExc when it
\* returns: a missing method is Python's AttributeError
RaisedBy(outcome) ==
    IF outcome.kind = "absent" THEN [type |-> "AttributeError", msg |-> "no attribute"]
    ELSE IF outcome.kind = "raise" THEN outcome.exc
    ELSE NoExc

(***************************************************************************)
(* DecisionPipeline.execute, one action per stretch between two awaits.    *)
(***************************************************************************)
\* mutant of ValidateInput: payload is not among the required keys
ValidateInput_NoPayload(inp) == \A k \in {"action", "agent_id"} : k \in inp.keys

\* DecisionPipeline._validate_input
ValidateInput(inp) == \A k \in Required : k \in inp.keys

\* `return ctx.get_summary()` leaving the `async with` block
Return(d, c) ==
    /\ ctx' = [ctx EXCEPT ![d] = AExit(c)]
    /\ ret' = [ret EXCEPT ![d] = GetSummary(AExit(c), input[d])]
    /\ pc' = [pc EXCEPT ![d] = "returned"]

\* mutant of TerminalTopic: the failed branch names a topic of its own
TerminalTopic_Typo(final_status) ==
    IF final_status = "failed" THEN "decision.error"
    ELSE IF final_status = "rejected" THEN "decision.rejected"
    ELSE IF final_status = "deferred" THEN "decision.deferred"
    ELSE "decision.completed"

\* the topic execute publishes for the final status
TerminalTopic(final_status) ==
    IF final_status = "failed" THEN "decision.failed"
    ELSE IF final_status = "rejected" THEN "decision.rejected"
    ELSE IF final_status = "deferred" THEN "decision.deferred"
    ELSE "decision.completed"

\* res.get("status", "executed") if res else "executed"
FinalStatus(res) ==
    IF res.kind = "dict" /\ res.keys # {} /\ "status" \in res.keys
    THEN res.status ELSE "executed"

\* execute from the return of lre_dp.execute_decision to the end; a res of
\* kind "raise" is an exception that execute_decision let escape
Complete(d, res, fault) ==
    IF res.kind = "raise"
    THEN LET c == MarkFailed(ctx[d], [type |-> res.error_type, msg |-> res.error])
         IN /\ Publish(d, "decision.failed", c, input[d], fault)
            /\ Return(d, c)
    ELSE LET final_status == FinalStatus(res)
             c == SetResult(ctx[d],
                            IF res.kind = "dict" /\ res.keys # {} THEN res
                            ELSE [NoResult EXCEPT !.kind = "dict", !.keys = {"status"},
                                                  !.status = "executed"],
                            final_status)
         IN /\ Publish(d, TerminalTopic(final_status), c, input[d], fault)
            /\ Return(d, c)

\* mutant of IsOnline: the answer is not awaited, the truthy coroutine
\* object is taken for it
IsOnline_IgnoreAnswer(o) ==
    IF RaisedBy(o).type = "AttributeError" THEN TRUE
    ELSE IF RaisedBy(o) # NoExc THEN FALSE
    ELSE TRUE

\* mutant of IsOnline: no `except AttributeError` branch, a capability
\* without query_presence counts as an error
IsOnline_AbsentOffline(o) ==
    IF RaisedBy(o) # NoExc THEN FALSE ELSE o.value

\* is_online after the try block around lpi.query_presence
IsOnline(o) ==
    IF RaisedBy(o).type = "AttributeError" THEN TRUE
    ELSE IF RaisedBy(o) # NoExc THEN FALSE
    ELSE o.value

\* execute is called: validation, the context is opened, decision.received
ExecuteBegin(d, env) ==
    /\ pc[d] = "idle"
    /\ \A e \in DOMAIN pc : e < d => pc[e] # "idle"
    /\ \E inp \in env.inputs, fault \in env.faults :
        /\ input' = [input EXCEPT ![d] = inp]
        /\ IF ~ValidateInput(inp)
           THEN /\ ret' = [ret EXCEPT ![d] =
                        [NoReturn EXCEPT !.kind = "invalid", !.status = "rejected",
                                         !.errors = <<"Invalid input format">>,
                                         !.decision = inp]]
                /\ pc' = [pc EXCEPT ![d] = "returned"]
                /\ UNCHANGED <<ctx, events, nextTrace, decision_log, faulted, delivered, log_ends>>
           ELSE /\ ctx' = [ctx EXCEPT ![d] = NewContext(inp, nextTrace)]
                /\ nextTrace' = nextTrace + 1
                /\ Publish(d, "decision.received", NewContext(inp, nextTrace), inp, fault)
                /\ pc' = [pc EXCEPT ![d] = "presence"]
                /\ UNCHANGED ret
    /\ UNCHANGED <<invoked, routed, obs, registry, subscribers, db, stateVars, busVars, appVars>>

\* mutant of PresenceCheck: decision.executing is published as soon as the
\* agent is found online, before routing
PresenceCheck_ExecutingFirst(d, env) ==
    /\ pc[d] = "presence"
    /\ \E o \in env.presence, fault \in env.faults :
        /\ obs' = [obs EXCEPT ![d].presence = Observed(o)]
        /\ LET is_online == IsOnline(o)
           IN IF ~is_online
              THEN LET c == AddMetadata(SetResult(ctx[d], NoResult, "deferred"),
                                        "reason", "agent_offline")
                   IN /\ Publish(d, "decision.deferred", c, input[d], fault)
                      /\ Return(d, c)
              ELSE /\ Publish(d, "decision.executing", ctx[d], input[d], fault)
                   /\ pc' = [pc EXCEPT ![d] = "routing"]
                   /\ UNCHANGED <<ctx, ret>>
    /\ UNCHANGED <<input, invoked, routed, nextTrace, registry, subscribers, db,
                   stateVars, busVars, appVars>>

\* the presence check (LPI)
PresenceCheck(d, env) ==
    /\ pc[d] = "presence"
    /\ \E o \in env.presence, fault \in env.faults :
        /\ obs' = [obs EXCEPT ![d].presence = Observed(o)]
        /\ LET is_online == IsOnline(o)
           IN IF ~is_online
              THEN LET c == AddMetadata(SetResult(ctx[d], NoResult, "deferred"),
                                        "reason", "agent_offline")
                   IN /\ Publish(d, "decision.deferred", c, input[d], fault)
                      /\ Return(d, c)
              ELSE /\ pc' = [pc EXCEPT ![d] = "routing"]
                   /\ UNCHANGED <<ctx, ret, events, decision_log, faulted, delivered, log_ends>>
    /\ UNCHANGED <<input, invoked, routed, nextTrace, registry, subscribers, db,
                   stateVars, busVars, appVars>>

\* routing (LRI)
Routing(d, env) ==
    /\ pc[d] = "routing"
    /\ routed' = [routed EXCEPT ![d] = @ + 1]
    /\ \E o \in env.routing, fault \in env.faults :
        /\ obs' = [obs EXCEPT ![d].routing = Observed(o)]
        /\ IF RaisedBy(o) = NoExc
           THEN /\ ctx' = [ctx EXCEPT ![d] = AddMetadata(@, "route", o.value)]
                /\ pc' = [pc EXCEPT ![d] = "executing"]
                /\ UNCHANGED <<ret, events, decision_log, faulted, delivered, log_ends>>
           ELSE IF RaisedBy(o).type = "AttributeError"
           THEN /\ ctx' = [ctx EXCEPT ![d] = AddMetadata(@, "route", "direct")]
                /\ pc' = [pc EXCEPT ![d] = "executing"]
                /\ UNCHANGED <<ret, events, decision_log, faulted, delivered, log_ends>>
           ELSE LET c == MarkFailed(ctx[d], RaisedBy(o))
                IN /\ Publish(d, "decision.failed", c, input[d], fault)
                   /\ Return(d, c)
    /\ UNCHANGED <<input, invoked, nextTrace, registry, subscribers, db, stateVars, busVars, appVars>>

\* decision.executing is published
PublishExecuting(d, env) ==
    /\ pc[d] = "executing"
    /\ \E fault \in env.faults : Publish(d, "decision.executing", ctx[d], input[d], fault)
    /\ pc' = [pc EXCEPT ![d] = "dispatch"]
    /\ UNCHANGED <<input, ctx, ret, invoked, routed, obs, nextTrace, registry,
                   subscribers, db, stateVars, busVars, appVars>>

\* what execute_decision of the runtime's MockProtocol returns
MockResult ==
    [NoResult EXCEPT !.kind = "dict", !.keys = {"status"}, !.status = "executed (mock)"]

\* self.lre_dp.execute_decision(ctx): LRE_DP up to the await of the handler,
\* or the MockProtocol the runtime falls back to
ExecuteDecision(d, env) ==
    /\ pc[d] = "dispatch"
    /\ \E dp \in env.lre_dp :
        IF dp = "MockProtocol"
        THEN /\ \E fault \in env.faults : Complete(d, MockResult, fault)
             /\ UNCHANGED invoked
        ELSE IF LookupResult(registry, input[d]) = NoResult
        THEN /\ invoked' = [invoked EXCEPT ![d] = @ + 1]
             /\ pc' = [pc EXCEPT ![d] = "handler"]
             /\ UNCHANGED <<ctx, ret, events, decision_log, faulted, delivered, log_ends>>
        ELSE /\ \E fault \in env.faults :
                  Complete(d, LookupResult(registry, input[d]), fault)
             /\ UNCHANGED invoked
    /\ UNCHANGED <<input, routed, obs, nextTrace, registry, subscribers, db,
                   stateVars, busVars, appVars>>

\* the handler finishes: the rest of execute_decision and of execute
HandlerDone(d, env) ==
    /\ pc[d] = "handler"
    /\ \E o \in env.handler, fault \in env.faults :
        /\ obs' = [obs EXCEPT ![d].handler = Observed(o)]
        /\ Complete(d, HandlerResult(input[d], o), fault)
    /\ UNCHANGED <<input, invoked, routed, nextTrace, registry, subscribers, db,
                   stateVars, busVars, appVars>>

\* PersistenceEngine.log_decision(context) called directly for call d
LogDecision(d, env) ==
    /\ ctx[d].trace_id # 0
    /\ \E fault \in env.faults :
        /\ decision_log' = InsertRecord(decision_log, GetSummary(ctx[d], input[d]), fault)
        /\ faulted' = [faulted EXCEPT ![d] =
              @ \/ (decision_log' #
                    InsertRecord(decision_log, GetSummary(ctx[d], input[d]), FALSE))]
        /\ log_ends' = log_ends \cup
              {InsertEnds(InsertAttempt(decision_log, GetSummary(ctx[d], input[d]), fault))}
    /\ UNCHANGED <<pc, input, ctx, ret, events, invoked, routed, obs, nextTrace,
                   registry, subscribers, db, delivered, stateVars, busVars, appVars>>

(***************************************************************************)
(* Specification of the pipeline.                                          *)
(***************************************************************************)
\* no query has been made
NoAnswer == [kind |-> "none"]

\* the rest of the application before it is used
\* asyncio.Lock() as constructed: not held
Unlocked == 0

NoValidation == [kind |-> "none"]

\* the usernames of login messages; "" is a name that is missing or empty
Usernames == {"admin", "guest", ""}

\* username not in self._login_attempts
NoEntry == [attempts |-> 0, last_time |-> -1]

NoLogin == [n |-> 0]

Never == -1

AuthIdle ==
    /\ login_attempts = [u \in Usernames |-> NoEntry]
    /\ utcnow = 0
    /\ login = NoLogin
    /\ history = [u \in Usernames |-> [failed |-> 0, fifth_at |-> Never]]

ExtIdle ==
    /\ bus_lock = Unlocked
    /\ frames = <<>>
    /\ validation = NoValidation
    /\ AuthIdle

\* LRERuntime.__init__: self.pipeline = None
NoPipeline == "None"

\* no call of the history, of a registry or of the runtime has been made
AppQuiet ==
    /\ ExtIdle
    /\ clock = 1
    /\ answer = NoAnswer
    /\ logged = {}
    /\ registries = [r \in Registries |-> <<>>]
    /\ default_registry = NoRegistry
    /\ reg_call = [op |-> "none"]
    /\ stopping = {}

\* the runtime after initialize(): the pipeline is built and _running set
AppIdle ==
    /\ AppQuiet
    /\ running = TRUE
    /\ pipeline = "DecisionPipeline"

\* an event bus on which publish is not called directly
BusIdle ==
    /\ pub = [state |-> "idle"]
    /\ gone = {}

\* the state manager before any call
StateIdle ==
    /\ process_state = <<>>
    /\ db_lock = 0
    /\ wpc = <<>>
    /\ wop = <<>>
    /\ wcur = <<>>
    /\ wtxn = <<>>

\* the actions src.execution.stdlib registers first
StandardActions ==
    <<[name |-> "system_ping", handler |-> "system_ping"],
      [name |-> "echo_payload", handler |-> "echo_payload"]>>

\* none of the n calls of execute has been made yet
NoCallsYet(n) ==
    /\ pc = [d \in 1..n |-> "idle"]
    /\ input = [d \in 1..n |-> NoInput]
    /\ ctx = [d \in 1..n |-> NoContext]
    /\ ret = [d \in 1..n |-> NoReturn]
    /\ events = [d \in 1..n |-> <<>>]
    /\ invoked = [d \in 1..n |-> 0]
    /\ routed = [d \in 1..n |-> 0]
    /\ obs = [d \in 1..n |-> NoObs]
    /\ nextTrace = 1
    /\ decision_log = EmptyBag
    /\ faulted = [d \in 1..n |-> FALSE]
    /\ delivered = [d \in 1..n |-> <<>>]
    /\ log_ends = {}

\* LRERuntime after initialize(): the standard actions are registered and
\* none of the n calls of execute has been made yet
PipeInit(n) ==
    /\ NoCallsYet(n)
    /\ registry = StandardActions

\* the persistence engine initialized and subscribed to decision.*
Wired ==
    /\ subscribers = <<[pattern |-> "decision.*", handlers |-> <<"persist">>]>>
    /\ db = "open"

Init == PipeInit(MaxCalls) /\ Wired /\ StateIdle /\ BusIdle /\ AppIdle

Next ==
    \/ \E d \in DOMAIN pc : ExecuteBegin(d, EnvAll)
    \/ \E d \in DOMAIN pc : PresenceCheck(d, EnvAll)
    \/ \E d \in DOMAIN pc : Routing(d, EnvAll)
    \/ \E d \in DOMAIN pc : PublishExecuting(d, EnvAll)
    \/ \E d \in DOMAIN pc : ExecuteDecision(d, EnvAll)
    \/ \E d \in DOMAIN pc : HandlerDone(d, EnvAll)

Spec == Init /\ [][Next]_vars

(***************************************************************************)
(* Specification of the pipeline when the runtime may have fallen back to  *)
(* its MockProtocol in place of LRE_DP (LRERuntime._init_protocols).       *)
(***************************************************************************)
EnvMock == [EnvAll EXCEPT !.lre_dp = {"LRE_DP", "MockProtocol"}]

NextMock ==
    \/ \E d \in DOMAIN pc : ExecuteBegin(d, EnvMock)
    \/ \E d \in DOMAIN pc : PresenceCheck(d, EnvMock)
    \/ \E d \in DOMAIN pc : Routing(d, EnvMock)
    \/ \E d \in DOMAIN pc : PublishExecuting(d, EnvMock)
    \/ \E d \in DOMAIN pc : ExecuteDecision(d, EnvMock)
    \/ \E d \in DOMAIN pc : HandlerDone(d, EnvMock)

SpecMock == Init /\ [][NextMock]_vars

(***************************************************************************)
(* Specification of the pipeline together with the persistence engine's    *)
(* failure modes: storage faults, an engine that was never initialized, no *)
(* subscription, and direct calls of log_decision.                         *)
(***************************************************************************)
\* a well-formed dml_input for the given action
ValidInput(action_name) ==
    [keys |-> Required, action |-> action_name, agent_id |-> "a1"]

\* the collaborators are present and answer; writes may hit a storage fault
EnvPersist ==
    [inputs |-> {ValidInput("system_ping"), ValidInput("bogus"),
                 [keys |-> {"action", "agent_id"}, action |-> "system_ping",
                  agent_id |-> "a1"]},
     presence |-> {o \in PresenceOutcomes : o.kind = "answer"},
     routing |-> {o \in RoutingOutcomes : o.kind = "route" /\ o.value = "direct"},
     handler |-> {o \in HandlerOutcomes :
                     o.value.status = "success" \/ o.exc.type = "RuntimeError"},
     faults |-> BOOLEAN, lre_dp |-> {"LRE_DP"}]

\* the engine subscribed but never initialized
Uninitialized ==
    /\ subscribers = <<[pattern |-> "decision.*", handlers |-> <<"persist">>]>>
    /\ db = "none"

\* the engine initialized but not subscribed: only direct calls reach it
DirectOnly ==
    /\ subscribers = <<>>
    /\ db = "open"

InitPersist ==
    /\ PipeInit(MaxDecisions)
    /\ Wired \/ Uninitialized \/ DirectOnly
    /\ StateIdle
    /\ BusIdle
    /\ AppIdle

NextPersist ==
    \/ \E d \in DOMAIN pc : ExecuteBegin(d, EnvPersist)
    \/ \E d \in DOMAIN pc : PresenceCheck(d, EnvPersist)
    \/ \E d \in DOMAIN pc : Routing(d, EnvPersist)
    \/ \E d \in DOMAIN pc : PublishExecuting(d, EnvPersist)
    \/ \E d \in DOMAIN pc : ExecuteDecision(d, EnvPersist)
    \/ \E d \in DOMAIN pc : HandlerDone(d, EnvPersist)
    \/ \E d \in DOMAIN pc : LogDecision(d, EnvPersist)

SpecPersist == InitPersist /\ [][NextPersist]_vars

(***************************************************************************)
(* Specification of the pipeline with a second subscriber next to the      *)
(* persistence engine, whose writes may fail or find no database.          *)
(***************************************************************************)
\* one well-formed decision; the handler succeeds or raises; writes may fail
EnvFaults ==
    [inputs |-> {ValidInput("system_ping")},
     presence |-> {o \in PresenceOutcomes : o.kind = "answer" /\ o.value},
     routing |-> {o \in RoutingOutcomes : o.kind = "route" /\ o.value = "direct"},
     handler |-> {o \in HandlerOutcomes :
                     o.value.status = "success" \/ o.exc.type = "RuntimeError"},
     faults |-> BOOLEAN, lre_dp |-> {"LRE_DP"}]

\* a second subscriber, "audit", follows the engine on decision.*; the
\* engine is initialized or not
Audited ==
    /\ subscribers = <<[pattern |-> "decision.*", handlers |-> <<"persist", "audit">>]>>
    /\ db \in {"open", "none"}

InitFaults ==
    /\ PipeInit(MaxFaultCalls)
    /\ Audited
    /\ StateIdle
    /\ BusIdle
    /\ AppIdle

NextFaults ==
    \/ \E d \in DOMAIN pc : ExecuteBegin(d, EnvFaults)
    \/ \E d \in DOMAIN pc : PresenceCheck(d, EnvFaults)
    \/ \E d \in DOMAIN pc : Routing(d, EnvFaults)
    \/ \E d \in DOMAIN pc : PublishExecuting(d, EnvFaults)
    \/ \E d \in DOMAIN pc : ExecuteDecision(d, EnvFaults)
    \/ \E d \in DOMAIN pc : HandlerDone(d, EnvFaults)
    \/ \E d \in DOMAIN pc : LogDecision(d, EnvFaults)

SpecFaults == InitFaults /\ [][NextFaults]_vars

(***************************************************************************)
(* StateManager over the SQLite backend: every writer is a thread with a   *)
(* connection of its own (SQLiteBackend.get_connection), all connections   *)
(* open the same database file.                                            *)
(***************************************************************************)
StateIds == {"t1", "t2"}

\* the key worker w writes, as in f'worker_{worker_id}'
WorkerKeys == <<"worker_1", "worker_2", "worker_3", "worker_4", "worker_5">>

\* a dict with no keys
EmptyState == <<>>

\* the process_state rows present before the writers start: t1 has been
\* initialised with {'initial': True}, t2 has no row
InitialRows == [id \in {"t1"} |-> [k \in {"initial"} |-> TRUE]]

\* StateManager.get_state
GetState(rows, trace_id) ==
    IF trace_id \in DOMAIN rows THEN rows[trace_id] ELSE EmptyState

\* mutant of Update: a key already present keeps its value
Update_KeepOld(current, new_state) ==
    [k \in DOMAIN current \cup DOMAIN new_state |->
        IF k \in DOMAIN current THEN current[k] ELSE new_state[k]]

\* current.update(new_state)
Update(current, new_state) ==
    [k \in DOMAIN current \cup DOMAIN new_state |->
        IF k \in DOMAIN new_state THEN new_state[k] ELSE current[k]]

\* mutant of InsertOrReplace: the statement is not keyed by trace_id and sets
\* every row
InsertOrReplace_Unkeyed(rows, trace_id, state) ==
    [id \in DOMAIN rows \cup {trace_id} |-> state]

\* INSERT OR REPLACE INTO process_state: the row of trace_id is set
InsertOrReplace(rows, trace_id, state) ==
    [id \in DOMAIN rows \cup {trace_id} |->
        IF id = trace_id THEN state ELSE rows[id]]

NoOp == [id |-> "", new_state |-> EmptyState, merge |-> FALSE]

\* the update_state calls the threads make: each worker adds a key of its own
EnvState ==
    [ids |-> StateIds, merges |-> BOOLEAN, faults |-> {FALSE},
     patches |-> [w \in DOMAIN WorkerKeys |-> {[k \in {WorkerKeys[w]} |-> TRUE]}]]

\* mutant of CanLock: a deferred BEGIN, which takes no lock
CanLock_Deferred(lock) == TRUE

\* BEGIN IMMEDIATE goes through once no other connection holds the
\* database's write lock; until then the connection waits
CanLock(lock) == lock = 0

\* thread w calls update_state(trace_id, new_state, merge)
UpdateStateCall(w, env) ==
    /\ wpc[w] = "idle"
    /\ \E id \in env.ids, m \in env.merges, patch \in env.patches[w] :
        wop' = [wop EXCEPT ![w] = [id |-> id, new_state |-> patch, merge |-> m]]
    /\ wpc' = [wpc EXCEPT ![w] = "begin"]
    /\ UNCHANGED <<process_state, db_lock, wcur, wtxn, pipeVars, busVars, appVars>>

\* cursor.execute("BEGIN IMMEDIATE")
BeginImmediate(w, env) ==
    /\ wpc[w] = "begin"
    /\ CanLock(db_lock)
    /\ db_lock' = w
    /\ IF wop[w].merge
       THEN wpc' = [wpc EXCEPT ![w] = "select"] /\ UNCHANGED wcur
       ELSE /\ wpc' = [wpc EXCEPT ![w] = "insert"]
            /\ wcur' = [wcur EXCEPT ![w] = wop[w].new_state]
    /\ UNCHANGED <<process_state, wop, wtxn, pipeVars, busVars, appVars>>

\* SELECT state_data ... WHERE trace_id=? and the merge into state_to_save
SelectAndMerge(w, env) ==
    /\ wpc[w] = "select"
    /\ wcur' = [wcur EXCEPT ![w] =
                  IF wop[w].id \in DOMAIN process_state
                  THEN Update(process_state[wop[w].id], wop[w].new_state)
                  ELSE wop[w].new_state]
    /\ wpc' = [wpc EXCEPT ![w] = "insert"]
    /\ UNCHANGED <<process_state, db_lock, wop, wtxn, pipeVars, busVars, appVars>>

\* INSERT OR REPLACE inside the transaction: not yet visible to the others
InsertState(w, env) ==
    /\ wpc[w] = "insert"
    /\ wtxn' = [wtxn EXCEPT ![w] = <<[id |-> wop[w].id, state |-> wcur[w]]>>]
    /\ wpc' = [wpc EXCEPT ![w] = "commit"]
    /\ UNCHANGED <<process_state, db_lock, wop, wcur, pipeVars, busVars, appVars>>

\* conn.commit(): the write becomes visible and the lock is released
Commit(w, env) ==
    /\ wpc[w] = "commit"
    /\ process_state' = InsertOrReplace(process_state, wtxn[w][1].id, wtxn[w][1].state)
    /\ wtxn' = [wtxn EXCEPT ![w] = <<>>]
    /\ db_lock' = 0
    /\ wpc' = [wpc EXCEPT ![w] = "done"]
    /\ UNCHANGED <<wop, wcur, pipeVars, busVars, appVars>>

\* n threads about to call into a StateManager whose table holds InitialRows
StateInit(n) ==
    /\ process_state = InitialRows
    /\ db_lock = 0
    /\ wpc = [w \in 1..n |-> "idle"]
    /\ wop = [w \in 1..n |-> NoOp]
    /\ wcur = [w \in 1..n |-> EmptyState]
    /\ wtxn = [w \in 1..n |-> <<>>]

InitState == PipeInit(0) /\ Wired /\ StateInit(MaxWriters) /\ BusIdle /\ AppIdle

NextState ==
    \/ \E w \in DOMAIN wpc : UpdateStateCall(w, EnvState)
    \/ \E w \in DOMAIN wpc : BeginImmediate(w, EnvState)
    \/ \E w \in DOMAIN wpc : SelectAndMerge(w, EnvState)
    \/ \E w \in DOMAIN wpc : InsertState(w, EnvState)
    \/ \E w \in DOMAIN wpc : Commit(w, EnvState)

SpecState == InitState /\ [][NextState]_vars

(***************************************************************************)
(* StateManager.update_state with statements that fail: BEGIN IMMEDIATE    *)
(* times out waiting for the write lock, or the SELECT, the INSERT or the  *)
(* commit raises a storage error.                                          *)
(***************************************************************************)
\* each thread merges or replaces a key of its own on either id, and any
\* statement may fail
EnvRollback ==
    [ids |-> StateIds, merges |-> BOOLEAN, faults |-> BOOLEAN,
     patches |-> [w \in DOMAIN WorkerKeys |-> {[k \in {WorkerKeys[w]} |-> TRUE]}]]

\* writer w is between BEGIN IMMEDIATE and the end of its transaction
InTxn(w) == wpc[w] \in {"select", "insert", "commit"}

\* mutant of Rollback: the except clause re-raises without conn.rollback()
Rollback_Skipped(w) ==
    [txn |-> wtxn[w], lock |-> db_lock]

\* conn.rollback() on w's connection: its uncommitted write is dropped and
\* the write lock, if this connection holds it, is released
Rollback(w) ==
    [txn |-> <<>>, lock |-> IF db_lock = w THEN 0 ELSE db_lock]

\* a statement of w's update_state raises: BEGIN IMMEDIATE because another
\* connection keeps the write lock past the timeout, a later one on a
\* storage error; the except clause rolls back and raises RuntimeError
StatementFails(w, env) ==
    /\ TRUE \in env.faults
    /\ \/ InTxn(w)
       \/ wpc[w] = "begin" /\ ~CanLock(db_lock)
    /\ wtxn' = [wtxn EXCEPT ![w] = Rollback(w).txn]
    /\ db_lock' = Rollback(w).lock
    /\ wpc' = [wpc EXCEPT ![w] = "raised"]
    /\ UNCHANGED <<process_state, wop, wcur, pipeVars, busVars, appVars>>

InitRollback == PipeInit(0) /\ Wired /\ StateInit(MaxWriters) /\ BusIdle /\ AppIdle

NextRollback ==
    \/ \E w \in DOMAIN wpc : UpdateStateCall(w, EnvRollback)
    \/ \E w \in DOMAIN wpc : BeginImmediate(w, EnvRollback)
    \/ \E w \in DOMAIN wpc : SelectAndMerge(w, EnvRollback)
    \/ \E w \in DOMAIN wpc : InsertState(w, EnvRollback)
    \/ \E w \in DOMAIN wpc : Commit(w, EnvRollback)
    \/ \E w \in DOMAIN wpc : StatementFails(w, EnvRollback)

SpecRollback == InitRollback /\ [][NextRollback]_vars

(***************************************************************************)
(* A DecisionContext used as the scope of arbitrary work:                  *)
(* async with DecisionContext(decision) as ctx: ...                        *)
(***************************************************************************)
\* what the enclosed work may raise: an Exception, or a BaseException such
\* as asyncio.CancelledError, whose str() is empty
ScopeExceptions == Exceptions \cup {[type |-> "CancelledError", msg |-> ""]}

\* async with DecisionContext(decision) as ctx: __init__ and __aenter__
ScopeEnter(d) ==
    /\ pc[d] = "idle"
    /\ input' = [input EXCEPT ![d] = ValidInput("system_ping")]
    /\ ctx' = [ctx EXCEPT ![d] = NewContext(ValidInput("system_ping"), nextTrace)]
    /\ nextTrace' = nextTrace + 1
    /\ pc' = [pc EXCEPT ![d] = "scope"]
    /\ UNCHANGED <<ret, events, invoked, routed, obs, registry, subscribers, db,
                   decision_log, faulted, delivered, log_ends, stateVars, busVars, appVars>>

\* the enclosed work calls one of the context's mutators
ScopeWork(d) ==
    /\ pc[d] = "scope"
    /\ \/ /\ MetadataGet(ctx[d].metadata, "route") = ""
          /\ ctx' = [ctx EXCEPT ![d] = AddMetadata(@, "route", "direct")]
       \/ /\ ctx[d].result = NoResult
          /\ \E o \in HandlerOutcomes, status \in {"executed", "rejected"} :
                ctx' = [ctx EXCEPT ![d] = SetResult(@, HandlerResult(input[d], o), status)]
       \/ /\ ctx[d].errors = <<>>
          /\ \E e \in Exceptions : ctx' = [ctx EXCEPT ![d] = MarkFailed(@, e)]
    /\ UNCHANGED <<pc, input, ret, events, invoked, routed, obs, nextTrace, registry,
                   subscribers, db, decision_log, faulted, delivered, log_ends,
                   stateVars, busVars, appVars>>

\* the enclosed work ends, normally or with an exception, and __aexit__
\* runs; the exception leaves the scope when __aexit__ returns False
ScopeExit(d) ==
    /\ pc[d] = "scope"
    /\ \E exc \in ScopeExceptions \cup {NoExc} :
          /\ ctx' = [ctx EXCEPT ![d] = AExitWith(@, exc)]
          /\ obs' = [obs EXCEPT ![d].handler =
                        IF exc = NoExc THEN "return" ELSE exc.type]
          /\ pc' = [pc EXCEPT ![d] =
                       IF exc # NoExc /\ ~AExitReturns(exc) THEN "raised"
                       ELSE "returned"]
    /\ UNCHANGED <<input, ret, events, invoked, routed, nextTrace, registry,
                   subscribers, db, decision_log, faulted, delivered, log_ends,
                   stateVars, busVars, appVars>>

InitScope == PipeInit(MaxScopes) /\ Wired /\ StateIdle /\ BusIdle /\ AppIdle

NextScope ==
    \/ \E d \in DOMAIN pc : ScopeEnter(d)
    \/ \E d \in DOMAIN pc : ScopeWork(d)
    \/ \E d \in DOMAIN pc : ScopeExit(d)

SpecScope == InitScope /\ [][NextScope]_vars

(***************************************************************************)
(* StateManager.update_state and save_state run by concurrent threads on   *)
(* two ids, with patches whose keys overlap.                               *)
(***************************************************************************)
\* thread w writes its own number: update_state under "a", or under "a"
\* and "b", save_state under both
EnvSerial ==
    [ids |-> StateIds, merges |-> BOOLEAN, faults |-> {FALSE},
     patches |-> [w \in DOMAIN WorkerKeys |->
                    {[k \in {"a"} |-> w], [k \in {"a", "b"} |-> w]}],
     states |-> [w \in DOMAIN WorkerKeys |-> {[k \in {"a", "b"} |-> w]}]]

\* thread w calls save_state(trace_id, state)
SaveStateCall(w, env) ==
    /\ wpc[w] = "idle"
    /\ \E id \in env.ids, state \in env.states[w] :
        wop' = [wop EXCEPT ![w] = [id |-> id, new_state |-> state, merge |-> FALSE]]
    /\ wpc' = [wpc EXCEPT ![w] = "save"]
    /\ UNCHANGED <<process_state, db_lock, wcur, wtxn, pipeVars, busVars, appVars>>

\* the INSERT OR REPLACE of save_state: sqlite3 opens a transaction for it,
\* and the statement waits for the database's write lock
SaveInsert(w, env) ==
    /\ wpc[w] = "save"
    /\ CanLock(db_lock)
    /\ db_lock' = w
    /\ wtxn' = [wtxn EXCEPT ![w] = <<[id |-> wop[w].id, state |-> wop[w].new_state]>>]
    /\ wpc' = [wpc EXCEPT ![w] = "commit"]
    /\ UNCHANGED <<process_state, wop, wcur, pipeVars, busVars, appVars>>

\* the table holds InitialRows: t1 has a row, t2 has none
InitSerial ==
    /\ PipeInit(0)
    /\ Wired
    /\ BusIdle
    /\ AppIdle
    /\ process_state = InitialRows
    /\ db_lock = 0
    /\ wpc = [w \in 1..MaxSerial |-> "idle"]
    /\ wop = [w \in 1..MaxSerial |-> NoOp]
    /\ wcur = [w \in 1..MaxSerial |-> EmptyState]
    /\ wtxn = [w \in 1..MaxSerial |-> <<>>]

NextSerial ==
    \/ \E w \in DOMAIN wpc : UpdateStateCall(w, EnvSerial)
    \/ \E w \in DOMAIN wpc : SaveStateCall(w, EnvSerial)
    \/ \E w \in DOMAIN wpc : BeginImmediate(w, EnvSerial)
    \/ \E w \in DOMAIN wpc : SelectAndMerge(w, EnvSerial)
    \/ \E w \in DOMAIN wpc : InsertState(w, EnvSerial)
    \/ \E w \in DOMAIN wpc : SaveInsert(w, EnvSerial)
    \/ \E w \in DOMAIN wpc : Commit(w, EnvSerial)

SpecSerial == InitSerial /\ [][NextSerial]_vars

(***************************************************************************)
(* The decision history: summaries written by the PersistenceEngine, each  *)
(* row stamped with time.time(), and get_agent_history called on the table *)
(* in between.                                                             *)
(***************************************************************************)
\* the summary dict of a decision as the pipeline hands it to the engine
SummaryOf(trace_id, status, agent_id, action, payload, result) ==
    [trace_id |-> trace_id, status |-> status,
     decision |-> PyDict(<<[key |-> PyStr("agent_id"), val |-> PyStr(agent_id)],
                           [key |-> PyStr("action"), val |-> PyStr(action)],
                           [key |-> PyStr("payload"), val |-> payload]>>),
     result |-> result]

\* queries with every filter, on decisions that differ in agent, action and
\* status; an action of "" is what a decision rejected for its empty action
\* is logged with
EnvHistory ==
    [rows |-> MaxRows,
     agents |-> {"a1", "a2"},
     actions |-> {"system_ping", ""},
     statuses |-> {"executed", "failed"},
     payloads |-> {PyDict(<<>>)},
     results |-> {PyNone},
     ticks |-> {1},
     query_agents |-> {"a1"},
     limits |-> {1, 2},
     status_args |-> {Null, <<PyStr("executed")>>},
     action_args |-> {Null, <<PyStr("system_ping")>>, <<PyStr("")>>},
     since_args |-> {Null, <<PyInt(2)>>}]

\* payloads of a decision: empty, a list under a str key, a tuple under it
Payloads ==
    {PyDict(<<>>),
     PyDict(<<[key |-> PyStr("k"), val |-> PyList(<<PyInt(1), PyInt(2)>>)]>>),
     PyDict(<<[key |-> PyStr("k"), val |-> PyTuple(<<PyInt(1), PyInt(2)>>)]>>)}

\* results of a decision: None, text under a str key, text under an int key
Results ==
    {PyNone,
     PyDict(<<[key |-> PyStr("k"), val |-> PyStr("v")]>>),
     PyDict(<<[key |-> PyInt(1), val |-> PyStr("v")]>>)}

\* unfiltered queries with the default limit, on decisions that differ in
\* payload and result
EnvRoundTrip ==
    [rows |-> MaxRoundTrips,
     agents |-> {"a1"},
     actions |-> {"system_ping"},
     statuses |-> {"executed", "failed"},
     payloads |-> Payloads,
     results |-> Results,
     ticks |-> {1},
     query_agents |-> {"a1"},
     limits |-> {10},
     status_args |-> {Null},
     action_args |-> {Null},
     since_args |-> {Null}]

\* PersistenceEngine._insert_record called with a summary
InsertSummary(env) ==
    /\ nextTrace <= env.rows
    /\ \E agent_id \in env.agents, action \in env.actions,
          status \in env.statuses, payload \in env.payloads,
          result \in env.results, tick \in env.ticks :
          LET summary == SummaryOf(nextTrace, status, agent_id, action,
                                   payload, result)
              row == StampedRow(summary, clock + tick)
          IN /\ clock' = clock + tick
             /\ logged' = logged \cup {summary}
             /\ decision_log' = IF db # "none" /\ StampedAccepts(decision_log, row)
                                THEN decision_log (+) SetToBag({row})
                                ELSE decision_log
    /\ nextTrace' = nextTrace + 1
    /\ UNCHANGED <<pc, input, ctx, ret, events, invoked, routed, obs, registry,
                   subscribers, db, faulted, delivered, log_ends, answer,
                   stateVars, busVars, regVars, runVars, extVars>>

\* PersistenceEngine.get_agent_history called by the application
GetAgentHistoryCall(env) ==
    /\ \E agent_id \in env.query_agents, limit \in env.limits,
          status \in env.status_args, action \in env.action_args,
          since_timestamp \in env.since_args :
          \E records \in GetAgentHistory(decision_log, PyStr(agent_id), limit,
                                         status, action, since_timestamp) :
             answer' = [kind |-> "history", agent_id |-> PyStr(agent_id),
                        limit |-> limit, status |-> status, action |-> action,
                        since_timestamp |-> since_timestamp,
                        table |-> BagToSet(decision_log), records |-> records]
    /\ UNCHANGED <<pipeVars, stateVars, busVars, clock, logged, regVars, runVars, extVars>>

InitHistory == PipeInit(0) /\ Wired /\ StateIdle /\ BusIdle /\ AppIdle

NextHistory ==
    \/ InsertSummary(EnvHistory)
    \/ GetAgentHistoryCall(EnvHistory)

SpecHistory == InitHistory /\ [][NextHistory]_vars

NextRoundTrip ==
    \/ InsertSummary(EnvRoundTrip)
    \/ GetAgentHistoryCall(EnvRoundTrip)

SpecRoundTrip == InitHistory /\ [][NextRoundTrip]_vars

(***************************************************************************)
(* Action registries on their own: two ActionRegistry objects, the         *)
(* module-level default registry and the action decorator.                 *)
(***************************************************************************)
\* action names and the functions registered under them
HandlerNames == {"ping", "echo"}

Functions == {"f", "g"}

\* registry.register(name, handler) called by the application
RegisterCall ==
    /\ \E r \in Registries, name \in HandlerNames, handler \in Functions :
          /\ registries' = [registries EXCEPT ![r] = Register(@, name, handler)]
          /\ reg_call' = [op |-> "register", registry |-> r, name |-> name,
                          handler |-> handler, outcome |-> "returned"]
    /\ UNCHANGED <<pipeVars, stateVars, busVars, histVars, default_registry,
                   runVars, extVars>>

\* set_default_registry(registry)
SetDefaultRegistry ==
    /\ \E r \in Registries :
          /\ default_registry' = r
          /\ reg_call' = [op |-> "set_default_registry", registry |-> r,
                          name |-> "", handler |-> "", outcome |-> "returned"]
    /\ UNCHANGED <<pipeVars, stateVars, busVars, histVars, registries, runVars, extVars>>

\* @action(name) or @action(name, registry=r) applied to a function: the
\* decorator raises RuntimeError without a target registry and registers
\* the function otherwise
ActionDecorator ==
    /\ \E explicit \in Registries \cup {NoRegistry}, name \in HandlerNames,
          func \in Functions :
          LET target_registry == TargetRegistry(explicit, default_registry)
          IN IF target_registry = NoRegistry
             THEN /\ registries' = registries
                  /\ reg_call' = [op |-> "action", registry |-> explicit,
                                  name |-> name, handler |-> func,
                                  outcome |-> "RuntimeError"]
             ELSE /\ registries' = [registries EXCEPT ![target_registry] =
                                       Register(@, name, func)]
                  /\ reg_call' = [op |-> "action", registry |-> explicit,
                                  name |-> name, handler |-> func,
                                  outcome |-> "returned"]
    /\ UNCHANGED <<pipeVars, stateVars, busVars, histVars, default_registry,
                   runVars, extVars>>

InitRegistry == PipeInit(0) /\ Wired /\ StateIdle /\ BusIdle /\ AppIdle

NextRegistry ==
    \/ RegisterCall
    \/ SetDefaultRegistry
    \/ ActionDecorator

SpecRegistry == InitRegistry /\ [][NextRegistry]_vars

(***************************************************************************)
(* LRERuntime.shutdown called while process_decision calls are in flight   *)
(* in the pipeline of an initialized runtime.                              *)
(***************************************************************************)
\* call d of process_decision is suspended inside pipeline.execute
InFlight(d) == pc[d] \notin {"idle", "returned"}

\* mutant of Shutdown: the calls in flight are cancelled and return at once
Shutdown_Cancel ==
    /\ running' = FALSE
    /\ stopping' = {d \in DOMAIN pc : InFlight(d)}
    /\ pc' = [d \in DOMAIN pc |-> IF InFlight(d) THEN "returned" ELSE pc[d]]
    /\ UNCHANGED <<input, ctx, ret, events, invoked, routed, obs, nextTrace,
                   registry, subscribers, db, decision_log, faulted, delivered,
                   log_ends, stateVars, busVars, histVars, regVars, extVars>>

\* LRERuntime.shutdown: self._running = False and two log lines
Shutdown ==
    /\ running' = FALSE
    /\ stopping' = {d \in DOMAIN pc : InFlight(d)}
    /\ UNCHANGED <<pipeVars, stateVars, busVars, histVars, regVars, extVars>>

\* the decisions processed around a shutdown: a registered and an unknown
\* action, presence answering, absent or raising, the handler returning or
\* raising
EnvStopped ==
    [inputs |-> {ValidInput("system_ping"), ValidInput("bogus")},
     presence |-> PresenceOutcomes,
     routing |-> {o \in RoutingOutcomes : o.kind = "route" /\ o.value = "direct"},
     handler |-> {o \in HandlerOutcomes :
                     o.value.status = "success" \/ o.exc.type = "RuntimeError"},
     faults |-> {FALSE}, lre_dp |-> {"LRE_DP"}]

\* the dict process_decision returns without a pipeline
NotInitialized ==
    [kind |-> "dict", status |-> "failed", error |-> "Runtime not initialized"]

\* mutant of HasPipeline: process_decision tests self._running
HasPipeline_Running(p) == running

\* the test "if not self.pipeline" of process_decision, negated
HasPipeline(p) == p # NoPipeline

\* LRERuntime.process_decision, called by a task that awaits each call
\* before it makes the next: with a pipeline the input goes to
\* pipeline.execute, without one the call returns a dict at once; _running
\* is not read
ProcessDecision(d, env) ==
    /\ \A e \in DOMAIN pc : e < d => pc[e] = "returned"
    /\ IF HasPipeline(pipeline)
       THEN ExecuteBegin(d, env)
       ELSE /\ pc[d] = "idle"
            /\ \E inp \in env.inputs : input' = [input EXCEPT ![d] = inp]
            /\ ret' = [ret EXCEPT ![d] = NotInitialized]
            /\ pc' = [pc EXCEPT ![d] = "returned"]
            /\ UNCHANGED <<ctx, events, invoked, routed, obs, nextTrace, registry,
                           subscribers, db, decision_log, faulted, delivered,
                           log_ends, stateVars, busVars, appVars>>

InitShutdown == PipeInit(MaxStopped) /\ Wired /\ StateIdle /\ BusIdle /\ AppIdle

\* the calling task and, in a task of its own, shutdown
NextShutdown ==
    \/ \E d \in DOMAIN pc : ProcessDecision(d, EnvStopped)
    \/ \E d \in DOMAIN pc : PresenceCheck(d, EnvStopped)
    \/ \E d \in DOMAIN pc : Routing(d, EnvStopped)
    \/ \E d \in DOMAIN pc : PublishExecuting(d, EnvStopped)
    \/ \E d \in DOMAIN pc : ExecuteDecision(d, EnvStopped)
    \/ \E d \in DOMAIN pc : HandlerDone(d, EnvStopped)
    \/ Shutdown

SpecShutdown == InitShutdown /\ [][NextShutdown]_vars

(***************************************************************************)
(* transport.handler.validate_message.  A message is the value decoded     *)
(* from a frame: a dict, whose five keys of interest are each absent or    *)
(* hold a value, or some other value.  A string is the sequence of its     *)
(* characters; an event name is one token.                                 *)
(***************************************************************************)
Absent == [kind |-> "absent", chars |-> <<>>]

Str(chars) == [kind |-> "str", chars |-> chars]

NonStr(kind) == [kind |-> kind, chars |-> <<>>]

Newline == "\n"

\* the characters str.strip() removes
Whitespace == {" ", Newline}

\* the characters of the class [a-zA-Z0-9\-] that occur in the model
ClassChars == {"a", "Z", "1", "-"}

RECURSIVE LStrip(_)
LStrip(chars) ==
    IF chars # <<>> /\ Head(chars) \in Whitespace THEN LStrip(Tail(chars)) ELSE chars

RECURSIVE RStrip(_)
RStrip(chars) ==
    IF chars # <<>> /\ chars[Len(chars)] \in Whitespace
    THEN RStrip(SubSeq(chars, 1, Len(chars) - 1)) ELSE chars

\* str.strip()
Strip(chars) == RStrip(LStrip(chars))

\* re.match(r'^[a-zA-Z0-9\-]+$', chars): one or more characters of the
\* class from the start, up to a point where $ matches, which is the end of
\* the string or the position before a newline that ends the string
ReMatch(chars) ==
    \E n \in 1..Len(chars) :
        /\ \A i \in 1..n : chars[i] \in ClassChars
        /\ \/ n = Len(chars)
           \/ n = Len(chars) - 1 /\ chars[Len(chars)] = Newline

\* Events.all(): the values of the upper-case string attributes of Events
EventsAll ==
    {<<"system_ping">>, <<"system_pong">>, <<"echo_payload">>, <<"log_message">>,
     <<"mock_deploy">>, <<"emergency_shutdown">>, <<"error">>}

\* Events.is_valid(event_type)
IsValidEvent(event_type) == event_type \in EventsAll

Verdict(is_valid, error_code) == [valid |-> is_valid, code |-> error_code]

\* validate_message(msg): the first check that fails decides
ValidateMessage(msg) ==
    IF msg.kind # "dict" THEN Verdict(FALSE, "E001")
    ELSE IF \E field \in {"type", "trace_id", "timestamp"} : msg[field] = Absent
         THEN Verdict(FALSE, "E006")
    ELSE IF msg.type.kind # "str" THEN Verdict(FALSE, "E007")
    ELSE IF msg.trace_id.kind # "str" THEN Verdict(FALSE, "E007")
    ELSE IF msg.timestamp.kind # "str" THEN Verdict(FALSE, "E007")
    ELSE IF Len(Strip(msg.trace_id.chars)) < 8 THEN Verdict(FALSE, "E007")
    ELSE IF ~ReMatch(msg.trace_id.chars) THEN Verdict(FALSE, "E007")
    ELSE IF ~IsValidEvent(msg.type.chars) THEN Verdict(FALSE, "E002")
    ELSE IF msg.payload # Absent /\ msg.payload.kind # "dict"
         THEN Verdict(FALSE, "E007")
    ELSE IF msg.meta # Absent /\ msg.meta.kind # "dict" THEN Verdict(FALSE, "E007")
    ELSE Verdict(TRUE, "None")

\* a trace id of eight characters of the class
Uuid8 == <<"a", "1", "-", "a", "1", "-", "a", "Z">>

\* trace ids: long enough or one short, clean or with a character outside
\* the class in front, inside or at the end
TraceIds ==
    {Uuid8, SubSeq(Uuid8, 1, 7), <<>>,
     Uuid8 \o <<Newline>>, SubSeq(Uuid8, 1, 7) \o <<Newline>>,
     <<" ">> \o Uuid8, SubSeq(Uuid8, 1, 7) \o <<" ">>,
     SubSeq(Uuid8, 1, 4) \o <<"_">> \o SubSeq(Uuid8, 5, 8),
     SubSeq(Uuid8, 1, 4) \o <<Newline>> \o SubSeq(Uuid8, 5, 8)}

\* the messages validated: values that are no dict, and dicts with each key
\* absent, of the right type, or of a wrong one
Messages ==
    {[kind |-> k] : k \in {"list", "str", "none"}}
    \cup [kind : {"dict"},
          type : {Absent, NonStr("int"), Str(<<"system_ping">>), Str(<<"error">>),
                  Str(<<"nope">>)},
          trace_id : {Absent, NonStr("int")} \cup {Str(t) : t \in TraceIds},
          timestamp : {Absent, NonStr("float"), Str(<<"1">>)},
          payload : {Absent, NonStr("dict"), NonStr("list"), NonStr("none")},
          meta : {Absent, NonStr("dict"), NonStr("str")}]

\* handle_client decodes a frame and validates it
ValidateCall ==
    /\ validation = NoValidation
    /\ \E msg \in Messages :
          validation' = [kind |-> "call", msg |-> msg, result |-> ValidateMessage(msg)]
    /\ UNCHANGED <<pipeVars, stateVars, busVars, histVars, regVars, runVars,
                   lockVars, pipeline, authVars>>

InitValidate == PipeInit(0) /\ Wired /\ StateIdle /\ BusIdle /\ AppIdle

NextValidate == ValidateCall

SpecValidate == InitValidate /\ [][NextValidate]_vars

(***************************************************************************)
(* auth.middleware.AuthMiddleware: credential logins and the in-memory     *)
(* protection against guessing.  _handle_login runs from its first line to *)
(* the send of its answer without giving way: its lock is only ever held   *)
(* across code that does not await, and the user store is synchronous.     *)
(***************************************************************************)
LockoutSeconds == 300

MaxFailedAttempts == 5

\* the users of the store and the passwords their hashes verify
Users ==
    [admin |-> [user_id |-> "user_admin", password |-> "admin-pw",
                role |-> "admin", is_active |-> TRUE],
     guest |-> [user_id |-> "user_guest", password |-> "guest-pw",
                role |-> "viewer", is_active |-> TRUE]]

\* the passwords of login messages; "" is one that is missing or empty
Passwords == {"admin-pw", "guest-pw", ""}

\* mutant of Locked: the sixth failure locks, not the fifth
Locked_SixFailures(entry, now) ==
    /\ entry # NoEntry
    /\ entry.attempts > MaxFailedAttempts
    /\ now - entry.last_time < LockoutSeconds

\* _check_brute_force returns False
Locked(entry, now) ==
    /\ entry # NoEntry
    /\ entry.attempts >= MaxFailedAttempts
    /\ now - entry.last_time < LockoutSeconds

\* _check_brute_force: the entry of a lock that has expired is deleted
AfterCheck(attempts, username, now) ==
    IF /\ attempts[username] # NoEntry
       /\ attempts[username].attempts >= MaxFailedAttempts
       /\ ~(now - attempts[username].last_time < LockoutSeconds)
    THEN [attempts EXCEPT ![username] = NoEntry]
    ELSE attempts

\* _record_attempt
RecordAttempt(attempts, username, success, now) ==
    IF success
    THEN [attempts EXCEPT ![username] = NoEntry]
    ELSE [attempts EXCEPT ![username] =
              [attempts |-> attempts[username].attempts + 1, last_time |-> now]]

\* user and user.is_active and user.verify_password(password)
Verified(username, password) ==
    /\ username \in DOMAIN Users
    /\ Users[username].is_active
    /\ Users[username].password = password

\* the claims _handle_login returns for the connection
Session(username) ==
    [sub |-> Users[username].user_id, username |-> username,
     role |-> Users[username].role, type |-> "access"]

\* _handle_login returns None
NoSession == [sub |-> "", username |-> "", role |-> "", type |-> "none"]

\* the answer sent and the value returned
Answer(code, session) == [code |-> code, session |-> session]

\* _handle_login: what is answered, and the attempts table afterwards
HandleLoginResult(attempts, username, password, now) ==
    IF username = "" \/ password = ""
    THEN [answer |-> Answer("CREDENTIALS_MISSING", NoSession), attempts |-> attempts]
    ELSE IF Locked(attempts[username], now)
    THEN [answer |-> Answer("RATE_LIMITED", NoSession), attempts |-> attempts]
    ELSE IF Verified(username, password)
    THEN [answer |-> Answer("None", Session(username)),
          attempts |-> RecordAttempt(AfterCheck(attempts, username, now),
                                     username, TRUE, now)]
    ELSE [answer |-> Answer("INVALID_CREDENTIALS", NoSession),
          attempts |-> RecordAttempt(AfterCheck(attempts, username, now),
                                     username, FALSE, now)]

\* what the answers given to a username so far amount to
Noted(h, reply, now) ==
    IF reply.session # NoSession THEN [failed |-> 0, fifth_at |-> Never]
    ELSE IF reply.code = "INVALID_CREDENTIALS"
    THEN [failed |-> h.failed + 1,
          fifth_at |-> IF (h.failed + 1) % MaxFailedAttempts = 0 THEN now
                       ELSE h.fifth_at]
    ELSE h

\* a login message arrives and _handle_login answers it
HandleLogin(username, password) ==
    /\ login.n < MaxLogins
    /\ LET r == HandleLoginResult(login_attempts, username, password, utcnow) IN
         /\ login_attempts' = r.attempts
         /\ login' = [n |-> login.n + 1, username |-> username,
                      password |-> password, at |-> utcnow, answer |-> r.answer]
         /\ history' = [history EXCEPT ![username] = Noted(@, r.answer, utcnow)]
    /\ UNCHANGED <<utcnow, pipeVars, stateVars, busVars, histVars, regVars,
                   runVars, lockVars, pipeline, validation>>

\* time passes
ClockAdvances ==
    /\ utcnow + TickSeconds <= MaxSeconds
    /\ utcnow' = utcnow + TickSeconds
    /\ UNCHANGED <<login_attempts, login, history, pipeVars, stateVars, busVars,
                   histVars, regVars, runVars, lockVars, pipeline, validation>>

InitAuth == PipeInit(0) /\ Wired /\ StateIdle /\ BusIdle /\ AppIdle

NextAuth ==
    \/ \E username \in Usernames, password \in Passwords :
          HandleLogin(username, password)
    \/ ClockAdvances

SpecAuth == InitAuth /\ [][NextAuth]_vars

(***************************************************************************)
(* Decisions executed concurrently: tasks of one event loop, each          *)
(* suspended at its awaits for as long as the awaited collaborator takes.  *)
(***************************************************************************)
\* valid inputs for a registered action; the agent is online or offline,
\* the handler returns or raises
EnvConcurrent ==
    [inputs |-> {ValidInput("system_ping")},
     presence |-> {o \in PresenceOutcomes : o.kind = "answer"},
     routing |-> {o \in RoutingOutcomes : o.kind = "route"},
     handler |-> {o \in HandlerOutcomes :
                     o.value.status = "success" \/ o.exc.type = "RuntimeError"},
     faults |-> {FALSE}, lre_dp |-> {"LRE_DP"}]

\* the event loop resumes call d at the await it is suspended at
Proceeds(d) ==
    \/ PresenceCheck(d, EnvConcurrent)
    \/ Routing(d, EnvConcurrent)
    \/ PublishExecuting(d, EnvConcurrent)
    \/ ExecuteDecision(d, EnvConcurrent)
    \/ HandlerDone(d, EnvConcurrent)

InitConcurrent == PipeInit(MaxDecisions) /\ Wired /\ StateIdle /\ BusIdle /\ AppIdle

NextConcurrent ==
    \/ \E d \in DOMAIN pc : ExecuteBegin(d, EnvConcurrent)
    \/ \E d \in DOMAIN pc : PresenceCheck(d, EnvConcurrent)
    \/ \E d \in DOMAIN pc : Routing(d, EnvConcurrent)
    \/ \E d \in DOMAIN pc : PublishExecuting(d, EnvConcurrent)
    \/ \E d \in DOMAIN pc : ExecuteDecision(d, EnvConcurrent)
    \/ \E d \in DOMAIN pc : HandlerDone(d, EnvConcurrent)

SpecConcurrent == InitConcurrent /\ [][NextConcurrent]_vars

\* what the last call awaits answers in the end; what the calls started
\* before it await may never answer
SpecConcurrentLive == SpecConcurrent /\ WF_vars(Proceeds(MaxDecisions))

(***************************************************************************)
(* LRERuntime from its construction: initialize, process_decision before   *)
(* and after it, and shutdown.                                             *)
(***************************************************************************)
\* the ActionRegistry object LRERuntime.__init__ creates
RuntimeRegistry == 1

\* the inputs processed and the collaborators' answers; importing
\* src.execution.stdlib goes through or raises
EnvRuntime ==
    [inputs |-> {ValidInput("system_ping"),
                 [keys |-> {"action", "agent_id"}, action |-> "system_ping",
                  agent_id |-> "a1"]},
     presence |-> {o \in PresenceOutcomes : o.kind = "answer"},
     routing |-> {o \in RoutingOutcomes : o.kind = "route" /\ o.value = "direct"},
     handler |-> {o \in HandlerOutcomes : o.value.status = "success"},
     faults |-> {FALSE}, lre_dp |-> {"LRE_DP"}, stdlib |-> BOOLEAN]

\* LRERuntime.initialize: the runtime's registry becomes the default one,
\* importing the standard library registers its actions, and unless that
\* import raises the pipeline is built and _running set
Initialize(env) ==
    /\ pipeline = NoPipeline
    /\ default_registry' = RuntimeRegistry
    /\ registry' = StandardActions
    /\ registries' = [registries EXCEPT ![RuntimeRegistry] = StandardActions]
    /\ \E imported \in env.stdlib :
          IF imported
          THEN pipeline' = "DecisionPipeline" /\ running' = TRUE
          ELSE UNCHANGED <<pipeline, running>>
    /\ UNCHANGED <<pc, input, ctx, ret, events, invoked, routed, obs, nextTrace,
                   subscribers, db, decision_log, faulted, delivered, log_ends,
                   stateVars, busVars, histVars, reg_call, stopping, lockVars,
                   validation, authVars>>

\* LRERuntime as constructed: no pipeline, not running, nothing registered
InitRuntime ==
    /\ NoCallsYet(MaxProcessed)
    /\ registry = <<>>
    /\ subscribers = <<>>
    /\ db = "none"
    /\ StateIdle
    /\ BusIdle
    /\ AppQuiet
    /\ running = FALSE
    /\ pipeline = NoPipeline

NextRuntime ==
    \/ Initialize(EnvRuntime)
    \/ \E d \in DOMAIN pc : ProcessDecision(d, EnvRuntime)
    \/ \E d \in DOMAIN pc : PresenceCheck(d, EnvRuntime)
    \/ \E d \in DOMAIN pc : Routing(d, EnvRuntime)
    \/ \E d \in DOMAIN pc : PublishExecuting(d, EnvRuntime)
    \/ \E d \in DOMAIN pc : ExecuteDecision(d, EnvRuntime)
    \/ \E d \in DOMAIN pc : HandlerDone(d, EnvRuntime)
    \/ Shutdown

SpecRuntime == InitRuntime /\ [][NextRuntime]_vars

\* a call suspended at an await is resumed by the event loop once the
\* awaited collaborator has answered
Resumed(d) ==
    \/ PresenceCheck(d, EnvStopped)
    \/ Routing(d, EnvStopped)
    \/ PublishExecuting(d, EnvStopped)
    \/ ExecuteDecision(d, EnvStopped)
    \/ HandlerDone(d, EnvStopped)

\* the event loop keeps running the suspended calls
SpecShutdownLive ==
    SpecShutdown /\ WF_vars(\E d \in 1..MaxStopped : Resumed(d))

(***************************************************************************)
(* EventBus on its own: subscribe, unsubscribe and publish called by the   *)
(* application, the matched handlers run as tasks gathered by publish.     *)
(***************************************************************************)
BusPatterns == {"decision.*", "decision.completed"}
BusTopics == {"decision.completed", "decision.failed"}
\* h1 is a coroutine function, h2 a plain function
BusHandlers == {"h1", "h2"}

\* asyncio.iscoroutinefunction(handler)
IsCoroutineFunction(handler) == handler = "h1"

Range(seq) == {seq[i] : i \in 1..Len(seq)}

\* handler in self._subscribers[topic]
Subscribed(subs, topic, handler) ==
    \E i \in 1..Len(subs) : subs[i].pattern = topic /\ handler \in Range(subs[i].handlers)

\* mutant of SubscribeTo: the handler is appended without the membership test
SubscribeTo_NoTest(subs, topic, handler) ==
    IF \E i \in 1..Len(subs) : subs[i].pattern = topic
    THEN [i \in 1..Len(subs) |->
            IF subs[i].pattern = topic
            THEN [subs[i] EXCEPT !.handlers = Append(@, handler)] ELSE subs[i]]
    ELSE Append(subs, [pattern |-> topic, handlers |-> <<handler>>])

\* the subscriber table after EventBus.subscribe(topic, handler)
SubscribeTo(subs, topic, handler) ==
    IF \E i \in 1..Len(subs) : subs[i].pattern = topic
    THEN [i \in 1..Len(subs) |->
            IF subs[i].pattern = topic /\ handler \notin Range(subs[i].handlers)
            THEN [subs[i] EXCEPT !.handlers = Append(@, handler)] ELSE subs[i]]
    ELSE Append(subs, [pattern |-> topic, handlers |-> <<handler>>])

\* list.remove(x): the first occurrence of x is taken out
Remove(seq, x) ==
    LET i == CHOOSE j \in 1..Len(seq) : seq[j] = x /\ \A l \in 1..(j - 1) : seq[l] # x
    IN SubSeq(seq, 1, i - 1) \o SubSeq(seq, i + 1, Len(seq))

NonEmptyEntry(e) == e.handlers # <<>>

\* mutant of UnsubscribeFrom: the handler is removed from the first pattern
\* of the table that holds it, whatever the pattern asked for
UnsubscribeFrom_AnyPattern(subs, topic, handler) ==
    IF \E i \in 1..Len(subs) : handler \in Range(subs[i].handlers)
    THEN LET f == CHOOSE i \in 1..Len(subs) :
                     /\ handler \in Range(subs[i].handlers)
                     /\ \A j \in 1..(i - 1) : handler \notin Range(subs[j].handlers)
         IN SelectSeq([i \in 1..Len(subs) |->
                          IF i = f THEN [subs[i] EXCEPT !.handlers = Remove(@, handler)]
                          ELSE subs[i]],
                      NonEmptyEntry)
    ELSE subs

\* the subscriber table after EventBus.unsubscribe(topic, handler)
UnsubscribeFrom(subs, topic, handler) ==
    IF Subscribed(subs, topic, handler)
    THEN SelectSeq([i \in 1..Len(subs) |->
                       IF subs[i].pattern = topic
                       THEN [subs[i] EXCEPT !.handlers = Remove(@, handler)]
                       ELSE subs[i]],
                   NonEmptyEntry)
    ELSE subs

\* mutant of SafeExecute: no try/except around the handler
SafeExecute_NoCatch(raises) == IF raises THEN "escaped" ELSE "done"

\* EventBus._safe_execute: how the task of a handler ends
SafeExecute(raises) == IF raises THEN "failed" ELSE "done"

RECURSIVE TasksOf_Dedup(_, _, _, _)
\* mutant of TasksOf: a handler already matched under a later pattern of the
\* table is not added again
TasksOf_Dedup(subs, topic, data, raising) ==
    IF subs = <<>> THEN <<>>
    ELSE LET rest == TasksOf_Dedup(Tail(subs), topic, data, raising)
             listed == {rest[i].handler : i \in 1..Len(rest)}
             mine == SelectSeq(Head(subs).handlers, LAMBDA h : h \notin listed)
         IN (IF Matches(Head(subs).pattern, topic)
             THEN [i \in 1..Len(mine) |->
                     [pattern |-> Head(subs).pattern,
                      handler |-> mine[i],
                      args |-> <<topic, data>>,
                      raises |-> mine[i] \in raising,
                      status |-> "pending",
                      runs |-> 0]]
             ELSE <<>>)
            \o rest

RECURSIVE TasksOf(_, _, _, _)
\* one _safe_execute task per entry of handlers_to_call; raising is the set
\* of handlers that raise when given this event
TasksOf(subs, topic, data, raising) ==
    IF subs = <<>> THEN <<>>
    ELSE (IF Matches(Head(subs).pattern, topic)
          THEN [i \in 1..Len(Head(subs).handlers) |->
                  [pattern |-> Head(subs).pattern,
                   handler |-> Head(subs).handlers[i],
                   args |-> <<topic, data>>,
                   raises |-> Head(subs).handlers[i] \in raising,
                   status |-> "pending",
                   runs |-> 0]]
          ELSE <<>>)
         \o TasksOf(Tail(subs), topic, data, raising)

\* mutant of AllSettled: the tasks are created but not gathered
AllSettled_NotGathered(tasks) == TRUE

\* await asyncio.gather(*tasks) has every task finished
AllSettled(tasks) == \A i \in 1..Len(tasks) : tasks[i].status \in {"done", "failed"}

NoPublish ==
    [n |-> 0, state |-> "idle", topic |-> "", data |-> 0, table |-> <<>>, tasks |-> <<>>]

\* the pipeline variables but the subscriber table
pipeRest == <<pc, input, ctx, ret, events, invoked, routed, obs, nextTrace,
              registry, db, decision_log, faulted, delivered, log_ends>>

\* EventBus.subscribe(topic, handler)
Subscribe(topic, handler) ==
    /\ subscribers' = SubscribeTo(subscribers, topic, handler)
    /\ gone' = gone \ {<<topic, handler>>}
    /\ UNCHANGED <<pub, pipeRest, stateVars, appVars>>

\* EventBus.unsubscribe(topic, handler)
Unsubscribe(topic, handler) ==
    /\ subscribers' = UnsubscribeFrom(subscribers, topic, handler)
    /\ gone' = gone \cup {<<topic, handler>>}
    /\ UNCHANGED <<pub, pipeRest, stateVars, appVars>>

\* the caller's next EventBus.publish(topic, data), up to asyncio.gather:
\* handlers_to_call is built under the lock and the tasks are created. The
\* caller awaits each publish before it makes the next one.
PublishStart ==
    /\ pub.state \in {"idle", "returned"}
    /\ pub.n < MaxPublishes
    /\ \E topic \in BusTopics, raising \in SUBSET BusHandlers :
        LET tasks == TasksOf(subscribers, topic, pub.n + 1, raising)
        IN pub' = [n |-> pub.n + 1,
                   state |-> IF tasks = <<>> THEN "returned" ELSE "running",
                   topic |-> topic, data |-> pub.n + 1, table |-> subscribers,
                   tasks |-> tasks]
    /\ UNCHANGED <<gone, pipeVars, stateVars, appVars>>

\* mutant of TaskStart: a task whose handler has been unsubscribed from its
\* pattern in the meantime is dropped without calling the handler
TaskStart_IfSubscribed(i) ==
    /\ pub.tasks[i].status = "pending"
    /\ pub' = IF Subscribed(subscribers, pub.tasks[i].pattern, pub.tasks[i].handler)
              THEN [pub EXCEPT !.tasks[i].runs = @ + 1,
                               !.tasks[i].status =
                                   IF IsCoroutineFunction(pub.tasks[i].handler)
                                   THEN "running"
                                   ELSE SafeExecute(pub.tasks[i].raises)]
              ELSE [pub EXCEPT !.tasks[i].status = "done"]
    /\ UNCHANGED <<gone, pipeVars, stateVars, appVars>>

\* the event loop starts task i of the publish: a plain function runs to its
\* end at once, a coroutine function runs up to its first await
TaskStart(i) ==
    /\ pub.tasks[i].status = "pending"
    /\ pub' = [pub EXCEPT !.tasks[i].runs = @ + 1,
                          !.tasks[i].status =
                              IF IsCoroutineFunction(pub.tasks[i].handler)
                              THEN "running"
                              ELSE SafeExecute(pub.tasks[i].raises)]
    /\ UNCHANGED <<gone, pipeVars, stateVars, appVars>>

\* the coroutine of task i finishes or raises
TaskFinish(i) ==
    /\ pub.tasks[i].status = "running"
    /\ pub' = [pub EXCEPT !.tasks[i].status = SafeExecute(pub.tasks[i].raises)]
    /\ UNCHANGED <<gone, pipeVars, stateVars, appVars>>

\* asyncio.gather hands control back to publish: all tasks are finished, or
\* one of them let an exception escape, which gather raises at once
PublishReturn ==
    /\ pub.state = "running"
    /\ LET escaped == \E i \in 1..Len(pub.tasks) : pub.tasks[i].status = "escaped"
       IN /\ AllSettled(pub.tasks) \/ escaped
          /\ pub' = [pub EXCEPT !.state = IF escaped THEN "raised" ELSE "returned"]
    /\ UNCHANGED <<gone, pipeVars, stateVars, appVars>>

\* a new EventBus and no call made yet
BusInit ==
    /\ subscribers = <<>>
    /\ db = "none"
    /\ pub = NoPublish
    /\ gone = {}

InitBus == PipeInit(0) /\ StateIdle /\ BusInit /\ AppIdle

NextBus ==
    \/ \E topic \in BusPatterns, handler \in BusHandlers : Subscribe(topic, handler)
    \/ \E topic \in BusPatterns, handler \in BusHandlers : Unsubscribe(topic, handler)
    \/ PublishStart
    \/ \E i \in 1..Len(pub.tasks) : TaskStart(i)
    \/ \E i \in 1..Len(pub.tasks) : TaskFinish(i)
    \/ PublishReturn

SpecBus == InitBus /\ [][NextBus]_vars

(***************************************************************************)
(* Handlers that call the bus they are delivered by.  Every call of        *)
(* publish, subscribe or unsubscribe and every _safe_execute task is a     *)
(* frame; frames[1] is the caller's publish.                               *)
(***************************************************************************)
NoFrame == 0

\* the bus calls made by handlers so far
NestedCalls ==
    {c \in 1..Len(frames) : frames[c].kind # "handler" /\ frames[c].parent # NoFrame}

\* handler is a coroutine function that may await a call of the bus; a plain
\* function cannot await one
Bodies(handler) ==
    IF IsCoroutineFunction(handler)
    THEN {"return", "raise", "subscribe", "unsubscribe", "publish"}
    ELSE {"return", "raise"}

\* the frame of a bus call
CallFrame(kind, parent, topic, pattern, handler, depth) ==
    [kind |-> kind, parent |-> parent, pc |-> "start", topic |-> topic,
     pattern |-> pattern, handler |-> handler, depth |-> depth]

\* the frames of the tasks publish frame f creates for its handlers_to_call
TaskFrames(f, tasks) ==
    [i \in 1..Len(tasks) |->
        [kind |-> "handler", parent |-> f, pc |-> "pending",
         topic |-> frames[f].topic, pattern |-> tasks[i].pattern,
         handler |-> tasks[i].handler, depth |-> frames[f].depth]]

\* mutant of ReleasedAfterRead: publish keeps the lock while it gathers
ReleasedAfterRead_Held(f) == f

\* the lock when publish frame f leaves its async with block, before it
\* creates and gathers the tasks
ReleasedAfterRead(f) == Unlocked

\* the caller publishes a topic
CallerPublish(topic) ==
    /\ frames = <<>>
    /\ frames' = <<CallFrame("publish", NoFrame, topic, "", "", 0)>>
    /\ UNCHANGED <<bus_lock, pipeVars, stateVars, busVars, histVars, regVars,
                   runVars, pipeline, validation, authVars>>

\* the caller subscribes before it publishes
CallerSubscribe(topic, handler) ==
    /\ frames = <<>>
    /\ bus_lock = Unlocked
    /\ Subscribe(topic, handler)

\* publish frame f takes the lock, which asyncio.Lock hands over at once
\* when it is free, copies the matching handlers and leaves the block
PublishRead(f) ==
    /\ frames[f].kind = "publish"
    /\ frames[f].pc = "start"
    /\ bus_lock = Unlocked
    /\ LET tasks == TasksOf(subscribers, frames[f].topic, "data", {})
       IN frames' = [frames EXCEPT ![f].pc = IF tasks = <<>> THEN "returned"
                                              ELSE "gather"]
                    \o TaskFrames(f, tasks)
    /\ bus_lock' = ReleasedAfterRead(f)
    /\ UNCHANGED <<pipeVars, stateVars, busVars, histVars, regVars, runVars,
                   pipeline, validation, authVars>>

\* the event loop starts task f: the handler returns, raises into
\* _safe_execute, or awaits a call of the bus
HandlerStart(f, body) ==
    /\ frames[f].kind = "handler"
    /\ frames[f].pc = "pending"
    /\ body \in Bodies(frames[f].handler)
    /\ body \in {"subscribe", "unsubscribe", "publish"}
          => Cardinality(NestedCalls) < MaxBusCalls
    /\ frames' =
         CASE body \in {"return", "raise"} -> [frames EXCEPT ![f].pc = "done"]
           [] body = "publish" ->
                Append([frames EXCEPT ![f].pc = "awaiting"],
                       CallFrame("publish", f, frames[f].topic, "", "",
                                 frames[f].depth + 1))
           [] body = "subscribe" ->
                Append([frames EXCEPT ![f].pc = "awaiting"],
                       CallFrame("subscribe", f, "", "decision.completed", "h2",
                                 frames[f].depth))
           [] body = "unsubscribe" ->
                Append([frames EXCEPT ![f].pc = "awaiting"],
                       CallFrame("unsubscribe", f, "", frames[f].pattern,
                                 frames[f].handler, frames[f].depth))
    /\ UNCHANGED <<bus_lock, pipeVars, stateVars, busVars, histVars, regVars,
                   runVars, pipeline, validation, authVars>>

\* subscribe frame f takes the lock, changes the table and releases it
SubscribeRun(f) ==
    /\ frames[f].kind = "subscribe"
    /\ frames[f].pc = "start"
    /\ bus_lock = Unlocked
    /\ subscribers' = SubscribeTo(subscribers, frames[f].pattern, frames[f].handler)
    /\ frames' = [frames EXCEPT ![f].pc = "returned"]
    /\ UNCHANGED <<bus_lock, pipeRest, stateVars, busVars, histVars, regVars,
                   runVars, pipeline, validation, authVars>>

\* unsubscribe frame f takes the lock, changes the table and releases it
UnsubscribeRun(f) ==
    /\ frames[f].kind = "unsubscribe"
    /\ frames[f].pc = "start"
    /\ bus_lock = Unlocked
    /\ subscribers' = UnsubscribeFrom(subscribers, frames[f].pattern,
                                      frames[f].handler)
    /\ frames' = [frames EXCEPT ![f].pc = "returned"]
    /\ UNCHANGED <<bus_lock, pipeRest, stateVars, busVars, histVars, regVars,
                   runVars, pipeline, validation, authVars>>

\* the bus call awaited by handler frame f has returned: the handler ends
HandlerResume(f) ==
    /\ frames[f].kind = "handler"
    /\ frames[f].pc = "awaiting"
    /\ \E c \in 1..Len(frames) : frames[c].parent = f /\ frames[c].pc = "returned"
    /\ frames' = [frames EXCEPT ![f].pc = "done"]
    /\ UNCHANGED <<bus_lock, pipeVars, stateVars, busVars, histVars, regVars,
                   runVars, pipeline, validation, authVars>>

\* asyncio.gather of publish frame f ends when all its tasks have ended
GatherReturn(f) ==
    /\ frames[f].kind = "publish"
    /\ frames[f].pc = "gather"
    /\ \A t \in 1..Len(frames) : frames[t].parent = f => frames[t].pc = "done"
    /\ frames' = [frames EXCEPT ![f].pc = "returned"]
    /\ UNCHANGED <<bus_lock, pipeVars, stateVars, busVars, histVars, regVars,
                   runVars, pipeline, validation, authVars>>

\* a step of the event loop
LoopStep ==
    \E f \in 1..Len(frames) :
        \/ PublishRead(f)
        \/ \E body \in {"return", "raise", "subscribe", "unsubscribe", "publish"} :
              HandlerStart(f, body)
        \/ SubscribeRun(f)
        \/ UnsubscribeRun(f)
        \/ HandlerResume(f)
        \/ GatherReturn(f)

InitLock == PipeInit(0) /\ StateIdle /\ BusInit /\ AppIdle

NextLock ==
    \/ \E topic \in BusPatterns : CallerSubscribe(topic, "h1")
    \/ CallerPublish("decision.completed")
    \/ \E f \in 1..Len(frames) : PublishRead(f)
    \/ \E f \in 1..Len(frames), body \in {"return", "raise", "subscribe",
                                          "unsubscribe", "publish"} :
          HandlerStart(f, body)
    \/ \E f \in 1..Len(frames) : SubscribeRun(f)
    \/ \E f \in 1..Len(frames) : UnsubscribeRun(f)
    \/ \E f \in 1..Len(frames) : HandlerResume(f)
    \/ \E f \in 1..Len(frames) : GatherReturn(f)

SpecLock == InitLock /\ [][NextLock]_vars

\* the event loop runs a coroutine that can resume
SpecLockLive == SpecLock /\ WF_vars(LoopStep)

(***************************************************************************)
(* Properties of DecisionPipeline.execute (specification Spec).            *)
(***************************************************************************)
\* the terminal lifecycle events call d published under its own trace id
TerminalEvents(d) ==
    {i \in 1..Len(events[d]) : /\ events[d][i].topic \in TerminalTopics
                               /\ events[d][i].data.trace_id = ctx[d].trace_id}

\* the topic of the last event call d published, "" when there is none
LastTopic(d) == IF events[d] = <<>> THEN "" ELSE events[d][Len(events[d])].topic

Published(d, topic) == \E i \in 1..Len(events[d]) : events[d][i].topic = topic

Returned(d) == pc[d] = "returned"

\* the dml_input has the three keys of a DecisionInput
WellFormed(inp) == {"action", "agent_id", "payload"} \subseteq inp.keys

\* C1: a call whose input passed validation has published exactly one
\* terminal lifecycle event with its trace id when it returns, on every
\* path; no call ever publishes two, and every event of a call carries the
\* call's own trace id, which no other call shares.
C1_ExactlyOneTerminalEvent ==
    \A d \in DOMAIN pc :
        /\ Cardinality(TerminalEvents(d)) <= 1
        /\ (Returned(d) /\ WellFormed(input[d])) => Cardinality(TerminalEvents(d)) = 1
        /\ \A i \in 1..Len(events[d]) :
              /\ events[d][i].data.trace_id = ctx[d].trace_id
              /\ events[d][i].topic \in TerminalTopics => i = Len(events[d])
        /\ \A e \in DOMAIN pc : (e # d /\ ctx[d].trace_id # 0) => ctx[e].trace_id # ctx[d].trace_id

\* C1 witness: a call whose handler raised has returned with one terminal event
C1_Witness ==
    \E d \in DOMAIN pc :
        Returned(d) /\ obs[d].handler = "RuntimeError" /\ Cardinality(TerminalEvents(d)) = 1

\* C2: a call with a valid input naming a registered action returns a
\* summary whose status is executed, failed, rejected or deferred, whatever
\* presence, routing and the handler did; it never ends any other way.
C2_StatusIsTerminal ==
    \A d \in DOMAIN pc :
        (/\ Returned(d)
         /\ WellFormed(input[d])
         /\ GetHandler(registry, input[d].action) # "None")
        => /\ ret[d].kind = "summary"
           /\ ret[d].status \in TerminalStatuses
           /\ ret[d].status = ctx[d].status
           /\ ret[d].trace_id = ctx[d].trace_id

\* C2 witness: every kind of collaborator misbehaviour met a registered action
C2_Witness ==
    \E d \in DOMAIN pc :
        /\ Returned(d)
        /\ GetHandler(registry, input[d].action) # "None"
        /\ obs[d].presence = "absent"
        /\ obs[d].routing = "AttributeError"
        /\ obs[d].handler = "AttributeError"
        /\ ret[d].status = "failed"

\* C5: when presence answers false the call returns deferred with
\* metadata.reason = "agent_offline", decision.deferred is its terminal
\* event, and routing, decision.executing and the handler are never reached.
C5_OfflineIsDeferred ==
    \A d \in DOMAIN pc :
        obs[d].presence = "false"
        => /\ Returned(d)
           /\ ret[d].status = "deferred"
           /\ MetadataGet(ret[d].metadata, "reason") = "agent_offline"
           /\ LastTopic(d) = "decision.deferred"
           /\ Cardinality(TerminalEvents(d)) = 1
           /\ ~Published(d, "decision.executing")
           /\ routed[d] = 0
           /\ obs[d].routing = "none"
           /\ invoked[d] = 0

\* C5 witness: presence answered false for a registered action
C5_Witness ==
    \E d \in DOMAIN pc :
        /\ obs[d].presence = "false"
        /\ input[d].action = "system_ping"
        /\ ret[d].status = "deferred"

\* C6: an input missing action, agent_id or payload is rejected with
\* errors = ["Invalid input format"]; no context or trace id is created, no
\* event is published, no capability or handler is called, and no record is
\* persisted for it.
C6_InvalidInputRejected ==
    /\ \A d \in DOMAIN pc :
        (pc[d] # "idle" /\ ~WellFormed(input[d]))
        => /\ Returned(d)
           /\ ret[d].kind = "invalid"
           /\ ret[d].status = "rejected"
           /\ ret[d].errors = <<"Invalid input format">>
           /\ ret[d].decision = input[d]
           /\ ret[d].trace_id = 0
           /\ ctx[d] = NoContext
           /\ events[d] = <<>>
           /\ obs[d] = NoObs
           /\ routed[d] = 0
           /\ invoked[d] = 0
    /\ nextTrace = 1 + Cardinality({d \in DOMAIN pc : pc[d] # "idle" /\ WellFormed(input[d])})
    /\ \A r \in BagToSet(decision_log) :
          \E d \in DOMAIN pc : WellFormed(input[d]) /\ ctx[d].trace_id = r.trace_id

\* C6 witness: an input without the payload key was rejected
C6_Witness ==
    \E d \in DOMAIN pc :
        /\ Returned(d)
        /\ input[d].keys = {"action", "agent_id"}
        /\ ret[d].status = "rejected"

\* the call went past the presence check and routing
OnlineAndRouted(d) ==
    /\ obs[d].presence \in {"true", "absent", "AttributeError"}
    /\ obs[d].routing \in {"route", "absent", "AttributeError"}

\* the names registered in the registry
RegisteredNames == {registry[i].name : i \in 1..Len(registry)}

InSeq(x, seq) == \E i \in 1..Len(seq) : seq[i] = x

RaisedTypes == {e.type : e \in Exceptions}

\* C8: when the handler of a registered action raises, the call returns a
\* summary with status failed whose result carries the error message and
\* the error-kind tag, and decision.failed is its terminal event.
C8_HandlerErrorFails ==
    \A d \in DOMAIN pc :
        obs[d].handler \in RaisedTypes
        => /\ Returned(d)
           /\ ret[d].kind = "summary"
           /\ ret[d].status = "failed"
           /\ {"error", "error_type"} \subseteq ret[d].result.keys
           /\ ret[d].result.error_type = obs[d].handler
           /\ \E e \in Exceptions : e.type = obs[d].handler /\ ret[d].result.error = e.msg
           /\ ret[d].result.action = input[d].action
           /\ LastTopic(d) = "decision.failed"
           /\ Cardinality(TerminalEvents(d)) = 1
           /\ invoked[d] = 1

\* C8 witness: the system_ping handler raised an AttributeError
C8_Witness ==
    \E d \in DOMAIN pc :
        /\ obs[d].handler = "AttributeError"
        /\ ret[d].result.error_type = "AttributeError"
        /\ LastTopic(d) = "decision.failed"

\* C9 as claimed: when the presence capability is present but raises, the
\* call ends failed with decision.failed as its terminal event and the
\* handler never runs.
C9_PresenceErrorFails ==
    \A d \in DOMAIN pc :
        obs[d].presence \in RaisedTypes
        => /\ invoked[d] = 0
           /\ Returned(d) => (ret[d].status = "failed" /\ LastTopic(d) = "decision.failed")

\* C9 witness: query_presence raised a RuntimeError and the call came back
\* deferred, with decision.deferred as its terminal event
C9_Witness ==
    \E d \in DOMAIN pc :
        /\ obs[d].presence = "RuntimeError"
        /\ Returned(d)
        /\ ret[d].status = "deferred"
        /\ MetadataGet(ret[d].metadata, "reason") = "agent_offline"
        /\ LastTopic(d) = "decision.deferred"

\* C10 as claimed: when the routing capability raises, the call ends failed
\* with the error recorded and decision.failed published, and it returns
\* before the execution stage: decision.executing is never published and
\* the handler is never invoked.
C10_RoutingErrorFails ==
    \A d \in DOMAIN pc :
        obs[d].routing \in RaisedTypes
        => /\ Returned(d)
           /\ ret[d].status = "failed"
           /\ ret[d].errors # <<>>
           /\ LastTopic(d) = "decision.failed"
           /\ ~Published(d, "decision.executing")
           /\ invoked[d] = 0

\* C10 witness: calculate_route raised an AttributeError, the route became
\* "direct", decision.executing was published and the handler ran
C10_Witness ==
    \E d \in DOMAIN pc :
        /\ obs[d].routing = "AttributeError"
        /\ MetadataGet(ctx[d].metadata, "route") = "direct"
        /\ Published(d, "decision.executing")
        /\ invoked[d] = 1
        /\ Returned(d)
        /\ ret[d].status = "executed"

\* the status a call ends with once it reaches the execution stage: it
\* depends on the action named and on what the handler did, nothing else
StatusOfExecution(d) ==
    IF GetHandler(registry, input[d].action) = "None" THEN "rejected"
    ELSE IF obs[d].handler \in RaisedTypes THEN "failed"
    ELSE "executed"

\* the call is past the routing stage and on its way to, or through, execution
Proceeded(d) ==
    /\ pc[d] \in {"executing", "dispatch", "handler", "returned"}
    /\ pc[d] \in {"dispatch", "handler", "returned"} => Published(d, "decision.executing")

\* C11: an absent presence capability leaves the agent online and an absent
\* routing capability gives route "direct"; the call proceeds to execution
\* and ends with the status it has when a present capability answers online
\* or a route, so absence alone never yields failed, rejected or deferred.
C11_AbsentDegrades ==
    \A d \in DOMAIN pc :
        /\ obs[d].presence = "absent"
           => /\ pc[d] # "presence"
              /\ MetadataGet(ctx[d].metadata, "reason") = ""
              /\ Returned(d) => obs[d].routing # "none"
        /\ obs[d].routing = "absent"
           => /\ MetadataGet(ctx[d].metadata, "route") = "direct"
              /\ Proceeded(d)
        /\ (/\ Returned(d)
            /\ obs[d].presence \in {"absent", "true"}
            /\ obs[d].routing \in {"absent", "route"})
           => /\ ret[d].status = StatusOfExecution(d)
              /\ ret[d].errors = <<>>
              /\ LastTopic(d) = TerminalTopic(StatusOfExecution(d))

\* C11 witness: both capabilities were absent and the handler ran to success
C11_Witness ==
    \E d \in DOMAIN pc :
        /\ Returned(d)
        /\ obs[d].presence = "absent"
        /\ obs[d].routing = "absent"
        /\ obs[d].handler = "return"
        /\ ret[d].status = "executed"
        /\ MetadataGet(ret[d].metadata, "route") = "direct"

\* the dicts a handler returned in the model
HandlerReturns == {o.value : o \in {h \in HandlerOutcomes : h.kind = "return"}}

\* C12 as claimed: when a registered handler returns, the decision's status
\* is executed unless the handler's own result reports rejected, deferred
\* or failed, in which case the decision ends with that status and the
\* matching terminal event.
C12_HandlerStatusWins ==
    \A d \in DOMAIN pc :
        (Returned(d) /\ obs[d].handler = "return")
        => LET own == ret[d].result.result.status
           IN IF own \in {"rejected", "deferred", "failed"}
              THEN ret[d].status = own /\ LastTopic(d) = TerminalTopic(own)
              ELSE ret[d].status = "executed" /\ LastTopic(d) = "decision.completed"

\* C12 amended: when a registered handler returns, the decision's status is
\* executed and decision.completed is its terminal event whatever status the
\* handler's own result reports; that result is carried unchanged under the
\* "result" key of the summary's result.
C12_HandlerStatusWrapped ==
    \A d \in DOMAIN pc :
        obs[d].handler = "return"
        => /\ Returned(d)
           /\ ret[d].status = "executed"
           /\ ret[d].result.keys = {"status", "result"}
           /\ ret[d].result.status = "executed"
           /\ ret[d].result.result \in HandlerReturns
           /\ LastTopic(d) = "decision.completed"
           /\ Cardinality(TerminalEvents(d)) = 1

\* C12 witness: the handler's own result said rejected and the decision
\* ended executed
C12_Witness ==
    \E d \in DOMAIN pc :
        /\ Returned(d)
        /\ obs[d].handler = "return"
        /\ ret[d].result.result.status = "rejected"
        /\ ret[d].status = "executed"
        /\ LastTopic(d) = "decision.completed"

\* C13 as claimed: the terminal topic agrees with the returned status,
\* decision.completed iff executed, decision.failed iff failed,
\* decision.rejected iff rejected, decision.deferred iff deferred, and the
\* summary carried by the terminal event has the trace id and the status of
\* the summary returned to the caller.
C13_TopicAgreesWithStatus ==
    \A d \in DOMAIN pc :
        (Returned(d) /\ WellFormed(input[d]))
        => /\ LastTopic(d) = "decision.completed" <=> ret[d].status = "executed"
           /\ LastTopic(d) = "decision.failed" <=> ret[d].status = "failed"
           /\ LastTopic(d) = "decision.rejected" <=> ret[d].status = "rejected"
           /\ LastTopic(d) = "decision.deferred" <=> ret[d].status = "deferred"
           /\ \A i \in TerminalEvents(d) :
                 /\ events[d][i].data.trace_id = ret[d].trace_id
                 /\ events[d][i].data.status = ret[d].status

\* C13 witness: the MockProtocol dispatcher answered, decision.completed was
\* published and the status returned is not executed
C13_Witness ==
    \E d \in DOMAIN pc :
        /\ Returned(d)
        /\ LastTopic(d) = "decision.completed"
        /\ ret[d].status = "executed (mock)"
        /\ ret[d].result = MockResult

\* the positions of topic among the events of call d
PositionsOf(d, topic) == {i \in 1..Len(events[d]) : events[d][i].topic = topic}

RowsOf(tid) == {r \in BagToSet(decision_log) : r.trace_id = tid}

\* the persistence engine receives the terminal events of the bus
Receiving ==
    /\ db = "open"
    /\ InSeq("persist", HandlersToCall(subscribers, "decision.completed"))
    /\ InSeq("persist", HandlersToCall(subscribers, "decision.failed"))
    /\ InSeq("persist", HandlersToCall(subscribers, "decision.rejected"))
    /\ InSeq("persist", HandlersToCall(subscribers, "decision.deferred"))

\* the log never holds two records of one trace id, every record belongs to
\* a decision that passed validation, and a decision that returned while
\* the engine was receiving its events without a storage fault has its one
\* record
OneRecordPerTrace ==
    /\ \A r \in BagToSet(decision_log) :
          /\ CopiesIn(r, decision_log) = 1
          /\ RowsOf(r.trace_id) = {r}
          /\ \E d \in DOMAIN pc : WellFormed(input[d]) /\ ctx[d].trace_id = r.trace_id
    /\ \A d \in DOMAIN pc :
          (Returned(d) /\ WellFormed(input[d]) /\ Receiving /\ ~faulted[d])
          => Cardinality(RowsOf(ctx[d].trace_id)) = 1

\* a step leaves every record of the log in place, unchanged
InsertOnly ==
    \A r \in BagToSet(decision_log) :
        CopiesIn(r, decision_log') = CopiesIn(r, decision_log)

TasksFor(pattern, handler) ==
    {i \in 1..Len(pub.tasks) :
        pub.tasks[i].pattern = pattern /\ pub.tasks[i].handler = handler}

\* what shell-style matching means for the patterns and topics of the
\* model: a literal pattern matches itself, decision.* every decision topic
GlobMatches(pattern, topic) == pattern = topic \/ pattern = "decision.*"

\* the tasks publish created for handler, under whatever pattern
TasksOfHandler(handler) ==
    {i \in 1..Len(pub.tasks) : pub.tasks[i].handler = handler}

\* publish invokes a handler once, with the topic and the data, for each
\* pattern matching the topic under which the handler is subscribed when
\* the publish starts, and through no other pattern
PublishOncePerSubscription ==
    pub.state # "idle"
    => /\ \A pattern \in BusPatterns, handler \in BusHandlers :
             Cardinality(TasksFor(pattern, handler)) =
                 IF GlobMatches(pattern, pub.topic)
                    /\ Subscribed(pub.table, pattern, handler)
                 THEN 1 ELSE 0
       /\ \A i \in 1..Len(pub.tasks) :
             /\ pub.tasks[i].pattern \in BusPatterns
             /\ pub.tasks[i].handler \in BusHandlers
             /\ pub.tasks[i].args = <<pub.topic, pub.data>>
             /\ pub.tasks[i].runs = IF pub.tasks[i].status = "pending" THEN 0 ELSE 1
       /\ pub.state = "returned" => \A i \in 1..Len(pub.tasks) : pub.tasks[i].runs = 1

\* C15: publish(T, data) invokes a handler subscribed under a pattern that
\* matches T exactly once for that publish, passing T and data, and invokes
\* no handler that has no subscription pattern matching T.
C15_HandlerInvokedOnce ==
    pub.state = "returned"
    => /\ \A handler \in BusHandlers :
             Cardinality(TasksOfHandler(handler)) =
                 IF \E pattern \in BusPatterns :
                        /\ GlobMatches(pattern, pub.topic)
                        /\ Subscribed(pub.table, pattern, handler)
                 THEN 1 ELSE 0
       /\ \A i \in 1..Len(pub.tasks) :
             /\ pub.tasks[i].args = <<pub.topic, pub.data>>
             /\ pub.tasks[i].runs = 1

\* C15 witness: h1 is subscribed under decision.* and decision.completed,
\* decision.completed was published, and h1 ran twice for that publish
C15_Witness ==
    /\ pub.state = "returned"
    /\ pub.topic = "decision.completed"
    /\ Subscribed(pub.table, "decision.*", "h1")
    /\ Subscribed(pub.table, "decision.completed", "h1")
    /\ Cardinality(TasksOfHandler("h1")) = 2
    /\ \A i \in TasksOfHandler("h1") : pub.tasks[i].runs = 1

\* C16: when a handler matched by a publish raises, every other matched
\* handler is still invoked and runs to its end, and publish returns
\* normally: no exception reaches its caller.
C16_HandlerFailureContained ==
    /\ pub.state # "raised"
    /\ \A i \in 1..Len(pub.tasks) : pub.tasks[i].status # "escaped"
    /\ pub.state = "returned"
       => \A i \in 1..Len(pub.tasks) :
             /\ pub.tasks[i].runs = 1
             /\ pub.tasks[i].status = IF pub.tasks[i].raises THEN "failed" ELSE "done"

\* C16 witness: of three matched handlers the second raised, the first and
\* the third ran to their end, and publish returned
C16_Witness ==
    /\ pub.state = "returned"
    /\ Len(pub.tasks) = 3
    /\ pub.tasks[1].status = "done"
    /\ pub.tasks[2].status = "failed"
    /\ pub.tasks[3].status = "done"

\* unsubscribe removes the pair it is given and nothing else, and changes
\* nothing when the pair is not subscribed; no pair whose last call was
\* unsubscribe is in the table
UnsubscribeExact ==
    /\ \A pair \in gone : ~Subscribed(subscribers, pair[1], pair[2])
    /\ \A pattern \in BusPatterns, handler \in BusHandlers :
          LET after == UnsubscribeFrom(subscribers, pattern, handler)
          IN /\ ~Subscribed(after, pattern, handler)
             /\ \A q \in BusPatterns, g \in BusHandlers :
                   <<q, g>> # <<pattern, handler>>
                   => (Subscribed(after, q, g) <=> Subscribed(subscribers, q, g))
             /\ ~Subscribed(subscribers, pattern, handler) => after = subscribers

\* a publish that starts in this step invokes no handler through a pattern
\* from which it has been unsubscribed
StartsWithoutGone ==
    pub'.n # pub.n
    => \A i \in 1..Len(pub'.tasks) :
          <<pub'.tasks[i].pattern, pub'.tasks[i].handler>> \notin gone

\* C17: once unsubscribe(pattern, handler) has completed, no publish that
\* starts afterwards invokes the handler through that pattern; the other
\* subscriptions, of other handlers and of the same handler under other
\* patterns, stay as they were, and unsubscribing a pair that is not
\* subscribed changes nothing.
C17_UnsubscribeHaltsDelivery == []UnsubscribeExact /\ [][StartsWithoutGone]_vars

\* C17 witness: h1 was unsubscribed from decision.* and a later publish of
\* decision.completed reached it only through decision.completed
C17_Witness ==
    /\ <<"decision.*", "h1">> \in gone
    /\ pub.state = "returned"
    /\ pub.topic = "decision.completed"
    /\ pub.table = subscribers
    /\ Len(pub.tasks) = 1
    /\ pub.tasks[1].pattern = "decision.completed"
    /\ pub.tasks[1].handler = "h1"

\* C18: publish returns only once every handler it matched has finished or
\* failed: in no state has publish returned while one of its handlers is
\* still running or has not started.
C18_ReturnsAfterHandlers ==
    pub.state = "returned"
    => \A i \in 1..Len(pub.tasks) : pub.tasks[i].status \notin {"pending", "running"}

\* C18 witness: publish returned after the coroutine handler finished and
\* the plain handler failed
C18_Witness ==
    /\ pub.state = "returned"
    /\ \E i, j \in 1..Len(pub.tasks) :
          /\ pub.tasks[i].handler = "h1" /\ pub.tasks[i].status = "done"
          /\ pub.tasks[j].handler = "h2" /\ pub.tasks[j].status = "failed"

\* C19: the table holds a handler at most once under a pattern; subscribing
\* a pair a second time leaves the table as the first call left it, and one
\* unsubscribe then removes the pair completely.
C19_SubscribeIdempotent ==
    /\ \A i, j \in 1..Len(subscribers) :
          subscribers[i].pattern = subscribers[j].pattern => i = j
    /\ \A i \in 1..Len(subscribers) :
          \A a, b \in 1..Len(subscribers[i].handlers) :
              subscribers[i].handlers[a] = subscribers[i].handlers[b] => a = b
    /\ \A pattern \in BusPatterns, handler \in BusHandlers :
          LET once == SubscribeTo(subscribers, pattern, handler)
              twice == SubscribeTo(once, pattern, handler)
          IN /\ twice = once
             /\ ~Subscribed(UnsubscribeFrom(twice, pattern, handler), pattern, handler)
             /\ ~Subscribed(subscribers, pattern, handler)
                => UnsubscribeFrom(twice, pattern, handler) = subscribers

\* C19 witness: both handlers are subscribed under both patterns
C19_Witness ==
    /\ Len(subscribers) = 2
    /\ \A i \in 1..2 : Len(subscribers[i].handlers) = 2

(***************************************************************************)
(* Properties of the pipeline under failing storage writes (specification  *)
(* SpecFaults).                                                            *)
(***************************************************************************)
\* the events of call d that reached the subscriber "audit", in order
AuditSaw(d) ==
    LET calls == SelectSeq(delivered[d], LAMBDA c : c.handler = "audit")
    IN [i \in 1..Len(calls) |-> [topic |-> calls[i].topic, data |-> calls[i].data]]

\* a write for call d failed: a storage fault hit it, or there is no database
WriteFailed(d) == faulted[d] \/ (db = "none" /\ delivered[d] # <<>>)

\* what execute returns to its caller, apart from the metadata
Outcome(d) ==
    [status |-> ret[d].status, result |-> ret[d].result, errors |-> ret[d].errors,
     topics |-> [i \in 1..Len(events[d]) |-> events[d][i].topic]]

\* C20: a failing storage write, an insert error or an engine without a
\* database, is never propagated: the engine's event callback and its log
\* methods return normally, and the status, trace_id and result execute
\* returns, and the delivery of the decision's events to the other
\* subscriber, are what they are when the write succeeds.
C20_WriteFailureContained ==
    /\ "raised" \notin log_ends
    /\ \A d \in DOMAIN pc :
          /\ \A i \in 1..Len(delivered[d]) : delivered[d][i].ended # "raised"
          /\ AuditSaw(d) = events[d]
          /\ Returned(d)
             => /\ ret[d].status = StatusOfExecution(d)
                /\ ret[d].trace_id = events[d][1].data.trace_id
                /\ \A i \in 1..Len(events[d]) :
                      events[d][i].data.trace_id = ret[d].trace_id
                /\ LastTopic(d) = TerminalTopic(ret[d].status)
    /\ \A d, e \in DOMAIN pc :
          (/\ Returned(d) /\ Returned(e)
           /\ input[d] = input[e] /\ obs[d] = obs[e]
           /\ WriteFailed(d) /\ ~WriteFailed(e))
          => Outcome(d) = Outcome(e)

\* C20 witness: of two calls with the same decision and the same handler
\* outcome, one lost a write to a storage fault and the other did not; a
\* direct log_decision failed too and returned
C20_Witness ==
    /\ "logged" \in log_ends
    /\ \E d, e \in DOMAIN pc :
          /\ Returned(d) /\ Returned(e)
          /\ input[d] = input[e] /\ obs[d] = obs[e]
          /\ faulted[d] /\ ~faulted[e]
          /\ \E i \in 1..Len(delivered[d]) :
                /\ delivered[d][i].handler = "persist"
                /\ delivered[d][i].topic = "decision.completed"
                /\ delivered[d][i].ended = "logged"
          /\ Len(AuditSaw(d)) = 3

\* C20 witness without a database: the engine skipped every write and the
\* call returned executed
C20_WitnessUninitialized ==
    /\ db = "none"
    /\ \E d \in DOMAIN pc :
          /\ Returned(d)
          /\ ret[d].status = "executed"
          /\ Len(AuditSaw(d)) = 3
          /\ \A i \in 1..Len(delivered[d]) : delivered[d][i].ended = "logged"
                                              \/ delivered[d][i].handler = "audit"

\* C24: a summary returned by get_summary is an immutable snapshot: what a
\* subscriber reads in the summary that was published with an event, the
\* decision.received one included, stays what it was at that moment
\* however the context is mutated afterwards.
C24_SummaryIsSnapshot ==
    \A d \in DOMAIN pc :
        \A i \in 1..Len(events[d]) :
            SeenNow(d, events[d][i].data) = events[d][i].data

\* C24 witness: the call has returned executed, and the summary published
\* with decision.received, whose status is still pending, now shows the
\* route that was added afterwards
C24_Witness ==
    \E d \in DOMAIN pc :
        /\ Returned(d)
        /\ ret[d].status = "executed"
        /\ Len(events[d]) = 3
        /\ events[d][1].topic = "decision.received"
        /\ MetadataGet(events[d][1].data.metadata, "route") = ""
        /\ SeenNow(d, events[d][1].data).status = "pending"
        /\ MetadataGet(SeenNow(d, events[d][1].data).metadata, "route") = "direct"

\* the summary published with decision.received shows an error that was
\* recorded afterwards
C24_ErrorsLeak ==
    \E d \in DOMAIN pc :
        /\ Returned(d)
        /\ Len(events[d]) >= 1
        /\ events[d][1].data.errors = <<>>
        /\ SeenNow(d, events[d][1].data).errors # <<>>

(***************************************************************************)
(* Properties of PersistenceEngine.get_statistics (specification           *)
(* SpecPersist).                                                           *)
(***************************************************************************)
\* the number of persisted rows with the given status
Persisted(status) ==
    Cardinality({r \in BagToSet(decision_log) : r.status = status})

\* only executed and failed decisions have been logged
OnlyExecutedAndFailed ==
    \A r \in BagToSet(decision_log) : r.status \in {"executed", "failed"}

\* C25: with E executed and F failed decisions persisted, and no others,
\* get_statistics of an initialized engine reports executed_count = E,
\* failed_count = F and total_decisions = E + F, for any E and F, counted
\* from the rows of the table.
C25_StatisticsCountRows ==
    (db = "open" /\ OnlyExecutedAndFailed)
    => /\ GetStatistics(decision_log).executed_count = <<Persisted("executed")>>
       /\ GetStatistics(decision_log).failed_count = <<Persisted("failed")>>
       /\ GetStatistics(decision_log).total_decisions =
             <<Persisted("executed") + Persisted("failed")>>

\* the counts are those of the rows as soon as the table has a row
StatisticsOfNonEmptyTable ==
    (db = "open" /\ BagToSet(decision_log) # {})
    => /\ GetStatistics(decision_log).executed_count = <<Persisted("executed")>>
       /\ GetStatistics(decision_log).failed_count = <<Persisted("failed")>>
       /\ GetStatistics(decision_log).total_decisions =
             <<Cardinality(BagToSet(decision_log))>>

\* C25 witness: a call has returned on an initialized engine whose table is
\* still empty because the write failed, and executed_count is NULL
C25_Witness ==
    /\ db = "open"
    /\ BagToSet(decision_log) = {}
    /\ \E d \in DOMAIN pc : Returned(d) /\ faulted[d]
    /\ GetStatistics(decision_log).executed_count = Null
    /\ GetStatistics(decision_log).total_decisions = <<0>>

(***************************************************************************)
(* Properties of the DecisionContext scope (specification SpecScope).      *)
(***************************************************************************)
\* str(e) of the exception of the given type
MessageOf(type) == (CHOOSE e \in ScopeExceptions : e.type = type).msg

\* the scope of d is left in this step: with an exception the context ends
\* failed with the message appended, without one status and errors stay
ScopeExitEffect ==
    \A d \in DOMAIN pc :
        (pc[d] = "scope" /\ pc'[d] # "scope")
        => /\ ctx'[d].ended
           /\ IF obs'[d].handler = "return"
              THEN /\ ctx'[d].status = ctx[d].status
                   /\ ctx'[d].errors = ctx[d].errors
              ELSE /\ ctx'[d].status = "failed"
                   /\ ctx'[d].errors =
                         Append(ctx[d].errors, MessageOf(obs'[d].handler))
           /\ ctx'[d].metadata = ctx[d].metadata
           /\ ctx'[d].result = ctx[d].result

\* no exception leaves a scope
NothingEscapes == \A d \in DOMAIN pc : pc[d] # "raised"

\* C23: an exception raised by the work enclosed in a DecisionContext scope
\* is suppressed at scope exit: the context ends with status failed, the
\* message of the exception appended to its errors and the end time
\* recorded, and nothing escapes the scope; without an exception scope exit
\* leaves status and errors unchanged.
C23_ScopeSuppresses == []NothingEscapes /\ [][ScopeExitEffect]_vars

\* C23 witness: the work set a result with status executed and then raised
\* RuntimeError; the scope was left with status failed and the message
C23_Witness ==
    \E d \in DOMAIN pc :
        /\ pc[d] = "returned"
        /\ obs[d].handler = "RuntimeError"
        /\ ctx[d].result # NoResult
        /\ ctx[d].status = "failed"
        /\ ctx[d].errors = <<"boom">>
        /\ ctx[d].ended

(***************************************************************************)
(* Properties of StateManager.update_state (specification SpecState).      *)
(***************************************************************************)
\* the writers that have called update_state on trace_id
WritersOf(trace_id) == {w \in DOMAIN wpc : wpc[w] # "idle" /\ wop[w].id = trace_id}

\* state holds every key of patch with patch's value
Contains(state, patch) ==
    \A k \in DOMAIN patch : k \in DOMAIN state /\ state[k] = patch[k]

\* C3: when the update_state calls made on an id all merge and write
\* pairwise distinct keys, then under every interleaving the stored state of
\* that id holds every key that was there before and the key of every call
\* that has returned: no update is lost.
C3_NoLostUpdate ==
    \A id \in StateIds :
        (\A w \in WritersOf(id) : wop[w].merge)
        => /\ Contains(GetState(process_state, id), GetState(InitialRows, id))
           /\ \A w \in WritersOf(id) :
                 wpc[w] = "done"
                 => Contains(GetState(process_state, id), wop[w].new_state)

\* C3 witness: every thread has merged its key into t1 and all are stored
C3_Witness ==
    /\ \A w \in DOMAIN wpc : wpc[w] = "done" /\ wop[w].id = "t1" /\ wop[w].merge
    /\ DOMAIN GetState(process_state, "t1") =
          {"initial"} \cup {WorkerKeys[w] : w \in DOMAIN wpc}
    /\ Cardinality(DOMAIN wpc) = MaxWriters

(***************************************************************************)
(* Properties of concurrent writers with overlapping keys (specification   *)
(* SpecSerial).                                                            *)
(***************************************************************************)
\* the writers whose call on trace_id has returned
DoneOn(trace_id) == {w \in DOMAIN wpc : wpc[w] = "done" /\ wop[w].id = trace_id}

\* the total orders of a set of writers
Orders(S) ==
    {order \in [1..Cardinality(S) -> S] :
        \A i, j \in 1..Cardinality(S) : order[i] = order[j] => i = j}

\* one update applied on its own to a stored state
ApplyOne(state, op) ==
    IF op.merge
    THEN [k \in DOMAIN state \cup DOMAIN op.new_state |->
             IF k \in DOMAIN op.new_state THEN op.new_state[k] ELSE state[k]]
    ELSE op.new_state

RECURSIVE ApplyInOrder(_, _, _)
\* the updates of the writers order[i], order[i+1], ... applied one at a time
ApplyInOrder(state, order, i) ==
    IF i > Len(order) THEN state
    ELSE ApplyInOrder(ApplyOne(state, wop[order[i]]), order, i + 1)

\* the writers inside a transaction: past BEGIN IMMEDIATE or the INSERT of
\* save_state, and not yet committed
InTransaction == {w \in DOMAIN wpc : wpc[w] \in {"select", "insert", "commit"}}

\* C21: the updates of an id are strictly serialized: between the read and
\* the write of one update_state no other writer reads or writes, and the
\* stored state of every id is the result of applying the returned updates
\* (merge, replace or save, with overlapping keys) one at a time in some
\* total order.
C21_UpdatesSerialized ==
    /\ Cardinality(InTransaction) <= 1
    /\ \A w \in InTransaction :
          /\ db_lock = w
          /\ (wpc[w] \in {"insert", "commit"} /\ wop[w].merge)
             => wcur[w] = ApplyOne(GetState(process_state, wop[w].id), wop[w])
    /\ \A id \in StateIds :
          \E order \in Orders(DoneOn(id)) :
              GetState(process_state, id) =
                  ApplyInOrder(GetState(InitialRows, id), order, 1)

\* C21 witness: every thread has written t1, one of them replacing, and the
\* stored state holds "a" of one writer and "b" of another
C21_Witness ==
    /\ Cardinality(DoneOn("t1")) = MaxSerial
    /\ \E w \in DoneOn("t1") : ~wop[w].merge
    /\ DOMAIN GetState(process_state, "t1") = {"a", "b"}
    /\ process_state["t1"]["a"] # process_state["t1"]["b"]

\* a call on an id returns in this step: the stored state of the id is the
\* previous one with the keys of the patch added or overwritten (merge), or
\* exactly the patch (replace, or no stored state); no other id changes
UpdateLeaves ==
    \A w \in DOMAIN wpc :
        (wpc[w] = "commit" /\ wpc'[w] = "done")
        => LET id == wop[w].id
               patch == wop[w].new_state
               prev == GetState(process_state, id)
               now == GetState(process_state', id)
           IN /\ id \in DOMAIN process_state'
              /\ wop[w].merge
                 => /\ DOMAIN now = DOMAIN prev \cup DOMAIN patch
                    /\ \A k \in DOMAIN patch : now[k] = patch[k]
                    /\ \A k \in DOMAIN prev \ DOMAIN patch : now[k] = prev[k]
              /\ ~wop[w].merge => now = patch
              /\ id \notin DOMAIN process_state => now = patch
              /\ \A other \in StateIds \ {id} :
                    GetState(process_state', other) = GetState(process_state, other)

\* get_state of an id that was never written is the empty map
NeverWrittenIsEmpty ==
    \A id \in StateIds :
        (id \notin DOMAIN InitialRows /\ DoneOn(id) = {})
        => GetState(process_state, id) = EmptyState

\* C22: update_state with merge leaves the state of the id equal to the
\* previous state with every key of the patch added or overwritten and every
\* other key kept; without merge it leaves exactly the patch; on an id with
\* no stored state both leave exactly the patch; get_state of an id never
\* written returns the empty map.
C22_MergeOrReplace == []NeverWrittenIsEmpty /\ [][UpdateLeaves]_vars

\* C22 witness: a merge of {a} into t1 overwrote "a" and kept "initial" and
\* the "b" of an earlier merge, and a merge into t2, which had no state,
\* left exactly its patch
C22_Witness ==
    \E w1, w2, w3 \in DOMAIN wpc :
        /\ wpc[w1] = "done" /\ wpc[w2] = "done" /\ wpc[w3] = "done"
        /\ wop[w1].id = "t1" /\ wop[w1].merge /\ DOMAIN wop[w1].new_state = {"a"}
        /\ wop[w2].id = "t1" /\ wop[w2].merge /\ DOMAIN wop[w2].new_state = {"a", "b"}
        /\ wop[w3].id = "t2" /\ wop[w3].merge
        /\ DOMAIN GetState(process_state, "t1") = {"initial", "a", "b"}
        /\ process_state["t1"]["a"] = w1
        /\ process_state["t1"]["b"] = w2
        /\ GetState(process_state, "t2") = wop[w3].new_state

(***************************************************************************)
(* Properties of PersistenceEngine.get_agent_history (specification        *)
(* SpecHistory).                                                           *)
(***************************************************************************)
\* the record or row r satisfies every filter the call a supplied
MeetsFilters(r, a) ==
    /\ r.agent_id = a.agent_id
    /\ a.status # Null => PyStr(r.status) = a.status[1]
    /\ a.action # Null => r.action = a.action[1]
    /\ a.since_timestamp # Null => r.timestamp > a.since_timestamp[1].n

\* the answer a holds only records that meet the supplied filters, newest
\* first, at most limit of them, and none of the matching rows left out is
\* newer than one returned or was left out with room to spare
FilteredNewestFirst(a) ==
    LET matching == {r \in a.table : MeetsFilters(r, a)}
        returned == {a.records[i].trace_id : i \in DOMAIN a.records}
    IN /\ \A i \in DOMAIN a.records : MeetsFilters(a.records[i], a)
       /\ \A i, j \in DOMAIN a.records :
             i < j => a.records[i].timestamp >= a.records[j].timestamp
       /\ Len(a.records) <= a.limit
       /\ \A r \in matching :
             r.trace_id \notin returned =>
                /\ Len(a.records) = a.limit
                /\ \A i \in DOMAIN a.records : a.records[i].timestamp >= r.timestamp

\* C26: get_agent_history returns only records of the agent that satisfy
\* every supplied filter (status equal, action equal, timestamp later than
\* since_timestamp), newest first, at most limit, and the newest matching
\* ones.
C26_HistoryFiltered ==
    answer.kind = "history" => FilteredNewestFirst(answer)

\* a call filtering on the action "" was answered with a record of another
\* action
C26_Witness ==
    /\ answer.kind = "history"
    /\ answer.action = <<PyStr("")>>
    /\ \E i \in DOMAIN answer.records : answer.records[i].action # PyStr("")

\* the same holds of every call whose supplied filters are true values in
\* Python
FiltersOfTrueValuesHold ==
    (/\ answer.kind = "history"
     /\ \A arg \in {answer.status, answer.action, answer.since_timestamp} :
           arg # Null => Truthy(arg))
    => FilteredNewestFirst(answer)

\* a call with true filter values cut the matching rows down to limit
TrueValuesWitness ==
    /\ answer.kind = "history"
    /\ answer.status = <<PyStr("executed")>>
    /\ answer.action = <<PyStr("system_ping")>>
    /\ answer.limit = 1
    /\ Cardinality({r \in answer.table : MeetsFilters(r, answer)}) = 2

(***************************************************************************)
(* Properties of the write and read-back of summaries (specification       *)
(* SpecRoundTrip).                                                         *)
(***************************************************************************)
RECURSIVE JsonTyped(_)
\* the value is built from None, str, int, list and dict with str keys only
JsonTyped(v) ==
    CASE v.py \in {"None", "str", "int"} -> TRUE
      [] v.py = "list" -> \A i \in DOMAIN v.items : JsonTyped(v.items[i])
      [] v.py = "tuple" -> FALSE
      [] v.py = "dict" ->
            \A i \in DOMAIN v.items :
               v.items[i].key.py = "str" /\ JsonTyped(v.items[i].val)

\* the summaries written for the agent of the answer a whose row was in the
\* table when the call was made
WrittenFor(a) ==
    {s \in logged :
        /\ DictGet(s.decision, PyStr("agent_id")) = a.agent_id
        /\ \E r \in a.table : r.trace_id = s.trace_id}

\* an answer to get_agent_history(agent_id) without filters
Unfiltered(a) ==
    /\ a.kind = "history"
    /\ a.status = Null /\ a.action = Null /\ a.since_timestamp = Null

\* the record of the answer a read back for the summary s
RecordOf(a, s) ==
    a.records[CHOOSE i \in DOMAIN a.records : a.records[i].trace_id = s.trace_id]

\* the identifying fields of the record are those of the summary
SameDecision(rec, s) ==
    /\ rec.trace_id = s.trace_id
    /\ rec.agent_id = DictGet(s.decision, PyStr("agent_id"))
    /\ rec.action = DictGet(s.decision, PyStr("action"))
    /\ rec.status = s.status

\* C27 as stated: every summary written by the engine and read back with
\* get_agent_history(agent_id) without filters has the same trace_id,
\* agent_id, action and status, and its input and result payloads are equal
\* to the originals.
C27_RoundTripExact ==
    (Unfiltered(answer) /\ Cardinality(answer.table) <= answer.limit) =>
        \A s \in WrittenFor(answer) :
            /\ \E i \in DOMAIN answer.records : answer.records[i].trace_id = s.trace_id
            /\ SameDecision(RecordOf(answer, s), s)
            /\ RecordOf(answer, s).input_payload = s.decision
            /\ RecordOf(answer, s).result_payload = s.result

\* C27, amended: the identifying fields are the same for every summary, and
\* a payload or result built from None, str, int, list and dict with str
\* keys is read back equal to the original, a result of None as None.
C27_RoundTripOfJson ==
    (Unfiltered(answer) /\ Cardinality(answer.table) <= answer.limit) =>
        \A s \in WrittenFor(answer) :
            /\ \E i \in DOMAIN answer.records : answer.records[i].trace_id = s.trace_id
            /\ SameDecision(RecordOf(answer, s), s)
            /\ JsonTyped(s.decision) =>
                  RecordOf(answer, s).input_payload = s.decision
            /\ JsonTyped(s.result) =>
                  RecordOf(answer, s).result_payload = s.result

\* two summaries were read back, one with a list in its payload and a dict
\* as result, one with a result of None
C27_Witness ==
    /\ Unfiltered(answer)
    /\ Len(answer.records) = 2
    /\ \E s \in WrittenFor(answer) :
          /\ JsonTyped(s.decision)
          /\ \E i \in DOMAIN s.decision.items :
                s.decision.items[i].val.py = "dict"
                /\ s.decision.items[i].val.items # <<>>
          /\ s.result.py = "dict"
          /\ JsonTyped(s.result)
    /\ \E s \in WrittenFor(answer) : s.result = PyNone

\* a payload with a tuple was read back with a list in its place
TupleReadAsList ==
    /\ Unfiltered(answer)
    /\ \E s \in WrittenFor(answer) :
          /\ ~JsonTyped(s.decision)
          /\ \E i \in DOMAIN answer.records :
                /\ answer.records[i].trace_id = s.trace_id
                /\ answer.records[i].input_payload # s.decision

(***************************************************************************)
(* Properties of ActionRegistry and the action decorator (specification    *)
(* SpecRegistry).                                                          *)
(***************************************************************************)
\* has_action(name) is true exactly of the names list_actions() holds, and
\* list_actions() holds no name twice
ListedOnce ==
    \A r \in Registries :
        /\ \A name \in HandlerNames :
              HasAction(registries[r], name) <=>
                 InSeq(name, ListActions(registries[r]))
        /\ \A i, j \in DOMAIN ListActions(registries[r]) :
              i # j => ListActions(registries[r])[i] # ListActions(registries[r])[j]

\* a name is absent from a registry until it is registered there
AbsentUntilRegistered ==
    reg_call.op = "none" =>
        \A r \in Registries, name \in HandlerNames :
            GetHandler(registries[r], name) = "None"

\* this step changed what get_handler returns in registry r under name to
\* handler, and nothing else in any registry
Registered(r, name, handler) ==
    /\ GetHandler(registries'[r], name) = handler
    /\ \A r2 \in Registries, name2 \in HandlerNames :
          <<r2, name2>> # <<r, name>> =>
             GetHandler(registries'[r2], name2) = GetHandler(registries[r2], name2)

\* register returns, and get_handler then returns its handler under its
\* name; every other name, and every other registry, is as before
RegisterWins ==
    reg_call'.op = "register" =>
        /\ reg_call'.outcome = "returned"
        /\ Registered(reg_call'.registry, reg_call'.name, reg_call'.handler)

\* C28: registration is last-write-wins and never errors: get_handler(name)
\* returns the handler of the most recent register for that name, or absent
\* if it was never registered; has_action(name) holds exactly when name is
\* in list_actions(), which contains each name once; registering on one
\* registry never changes another.
C28_LastWriteWins ==
    /\ [](ListedOnce /\ AbsentUntilRegistered)
    /\ [][RegisterWins]_vars

\* a name was registered again with another function, in one registry only
C28_Witness ==
    /\ reg_call.op = "register"
    /\ \E r \in Registries :
          /\ r # reg_call.registry
          /\ GetHandler(registries[r], reg_call.name) \notin {"None", reg_call.handler}
    /\ Len(registries[reg_call.registry]) = 2
    /\ registries[reg_call.registry][1].name = reg_call.name
    /\ GetHandler(registries[reg_call.registry], reg_call.name) = reg_call.handler

\* what applying the decorator does: without an explicit and without a
\* default registry it raises and leaves every registry as it is; otherwise
\* it registers in the explicit registry if there is one, else in the
\* default, and only there
DecoratorTarget ==
    reg_call'.op = "action" =>
        IF reg_call'.registry = NoRegistry /\ default_registry = NoRegistry
        THEN /\ reg_call'.outcome = "RuntimeError"
             /\ registries' = registries
        ELSE /\ reg_call'.outcome = "returned"
             /\ Registered(IF reg_call'.registry # NoRegistry
                           THEN reg_call'.registry ELSE default_registry,
                           reg_call'.name, reg_call'.handler)

\* C29: the action decorator used without a default and without an explicit
\* registry fails at once with a configuration error and registers nowhere;
\* once a default is set it adds to the current default; with an explicit
\* registry it adds to that registry only.
C29_DecoratorTarget == [][DecoratorTarget]_vars

\* the decorator failed while no default was set and both registries are
\* empty
C29_Witness ==
    /\ reg_call.op = "action"
    /\ reg_call.outcome = "RuntimeError"
    /\ default_registry = NoRegistry
    /\ \A r \in Registries : registries[r] = <<>>

\* the decorator with an explicit registry added there, not to the default
ExplicitRegistryWitness ==
    /\ reg_call.op = "action"
    /\ reg_call.registry \notin {NoRegistry, default_registry}
    /\ default_registry # NoRegistry
    /\ HasAction(registries[reg_call.registry], reg_call.name)
    /\ ~HasAction(registries[default_registry], reg_call.name)

\* the decorator without an explicit registry added to the default set last
DefaultRegistryWitness ==
    /\ reg_call.op = "action"
    /\ reg_call.registry = NoRegistry
    /\ reg_call.outcome = "returned"
    /\ HasAction(registries[default_registry], reg_call.name)
    /\ \A r \in Registries \ {default_registry} : registries[r] = <<>>

(***************************************************************************)
(* Properties of LRERuntime.shutdown (specification SpecShutdownLive).     *)
(***************************************************************************)
\* a step that changes the running flag clears it and changes nothing of
\* the pipeline, the bus, the registry or the decision log
ShutdownOnlyFlips ==
    running' # running =>
        /\ running' = FALSE
        /\ UNCHANGED <<pipeVars, stateVars, busVars, histVars, regVars, extVars>>

\* call d has returned the summary of its context with a terminal status,
\* after publishing the terminal event of that status with its trace id
RanToEnd(d) ==
    /\ Returned(d)
    /\ ret[d].kind = "summary"
    /\ ret[d].status \in TerminalStatuses
    /\ ret[d].trace_id = ctx[d].trace_id
    /\ Cardinality(TerminalEvents(d)) = 1
    /\ LastTopic(d) \in TerminalTopics
    /\ events[d][Len(events[d])].data.status = ret[d].status

\* a call that was in flight at shutdown returns only in that way
StoppedRunToEnd ==
    \A d \in stopping : Returned(d) => RanToEnd(d)

Deliveries(subs, topic) ==
    {pair \in BusPatterns \X BusHandlers :
        GlobMatches(pair[1], topic) /\ Subscribed(subs, pair[1], pair[2])}

\* the calls made so far through the pair by the latest publish
RunsThrough(pair) ==
    Cardinality({i \in TasksFor(pair[1], pair[2]) : pub.tasks[i].runs = 1})

\* a publish that has returned has called every pair of the table it read
\* once, whatever the table holds now, and no pair that was not in it
SnapshotDelivered ==
    pub.state = "returned"
    => \A pair \in BusPatterns \X BusHandlers :
          RunsThrough(pair) = IF pair \in Deliveries(pub.table, pub.topic) THEN 1 ELSE 0

\* subscribe and unsubscribe leave the handlers of a publish in flight as
\* they are
TableChangeLeavesTasks ==
    subscribers' # subscribers => pub' = pub

\* C34: publish delivers to the subscriptions that exist when it reads the
\* subscriber table: a handler subscribed while its handlers are running is
\* not invoked for that event, and a handler unsubscribed after the publish
\* read the table is still invoked for it.
C34_DeliversToSnapshot ==
    /\ []SnapshotDelivered
    /\ [][TableChangeLeavesTasks]_vars

\* while a publish is in flight, h2 has been unsubscribed from the pattern
\* through which its call is still pending, and h1 has been subscribed
\* under a matching pattern the publish did not read
C34_Witness ==
    /\ pub.state = "running"
    /\ \E i \in 1..Len(pub.tasks) :
          /\ pub.tasks[i].handler = "h2"
          /\ pub.tasks[i].status = "pending"
          /\ <<pub.tasks[i].pattern, "h2">> \in gone
          /\ ~Subscribed(subscribers, pub.tasks[i].pattern, "h2")
    /\ \E pattern \in BusPatterns :
          /\ GlobMatches(pattern, pub.topic)
          /\ Subscribed(subscribers, pattern, "h1")
          /\ ~Subscribed(pub.table, pattern, "h1")

\* a publish returned after calling a pair that is no longer subscribed and
\* without calling a pair that is subscribed now
SnapshotWitness ==
    /\ pub.state = "returned"
    /\ \E pair \in Deliveries(pub.table, pub.topic) :
          pair \notin Deliveries(subscribers, pub.topic) /\ RunsThrough(pair) = 1
    /\ \E pair \in Deliveries(subscribers, pub.topic) :
          pair \notin Deliveries(pub.table, pub.topic) /\ RunsThrough(pair) = 0

\* the number of patterns matching the topic under which the table read by
\* the latest publish holds the handler
MatchingPatterns(handler) ==
    Cardinality({pattern \in BusPatterns :
                    <<pattern, handler>> \in Deliveries(pub.table, pub.topic)})

\* C35: delivery is per (pattern, handler) subscription, with no
\* de-duplication across patterns: a handler subscribed under k patterns
\* that all match the topic is invoked k times for one publish of it.
C35_InvokedPerPattern ==
    pub.state = "returned"
    => \A handler \in BusHandlers :
          /\ Cardinality(TasksOfHandler(handler)) = MatchingPatterns(handler)
          /\ \A i \in TasksOfHandler(handler) : pub.tasks[i].runs = 1

\* the plain function h2, subscribed under both patterns, was called twice
\* for one publish of decision.completed, and h1, under one pattern, once
C35_Witness ==
    /\ pub.state = "returned"
    /\ pub.topic = "decision.completed"
    /\ MatchingPatterns("h2") = 2
    /\ Cardinality(TasksOfHandler("h2")) = 2
    /\ MatchingPatterns("h1") = 1
    /\ Cardinality(TasksOfHandler("h1")) = 1

(***************************************************************************)
(* Properties of handlers that call their own bus (specification           *)
(* SpecLockLive).                                                          *)
(***************************************************************************)
\* a task of some publish has been created and has not ended
HandlersRunning ==
    \E f \in 1..Len(frames) : frames[f].kind = "handler" /\ frames[f].pc # "done"

\* the caller's publish has returned
OuterReturned == frames # <<>> /\ frames[1].pc = "returned"

\* every frame has run to its end
AllEnded == \A f \in 1..Len(frames) : frames[f].pc \in {"returned", "done"}

\* C36: the bus lock is held only while the subscriber table is read or
\* changed, never while handlers run, so a handler that calls subscribe,
\* unsubscribe or publish on the same bus during delivery does not
\* deadlock: the outer publish returns, and it returns only when all its
\* handlers, nested publishes included, have finished.
C36_NoLockWhileHandlersRun ==
    /\ [](HandlersRunning => bus_lock = Unlocked)
    /\ [](OuterReturned => AllEnded)
    /\ (frames # <<>>) ~> OuterReturned

\* a call of the given kind made by a handler has returned
NestedReturned(kind) ==
    \E c \in NestedCalls : frames[c].kind = kind /\ frames[c].pc = "returned"

\* the caller's publish has returned after one of its handlers published on
\* the bus and a handler of that nested publish subscribed a handler
C36_Witness ==
    /\ OuterReturned
    /\ \E c \in NestedCalls, n \in NestedCalls :
          /\ frames[c].kind = "publish"
          /\ frames[c].pc = "returned"
          /\ frames[n].kind = "subscribe"
          /\ frames[n].pc = "returned"
          /\ frames[frames[n].parent].parent = c

\* the caller's publish has returned after two of its handlers called the
\* bus, one to unsubscribe itself and one to subscribe another handler
UnsubscribedItselfWitness ==
    /\ OuterReturned
    /\ NestedReturned("unsubscribe")
    /\ NestedReturned("subscribe")
    /\ \A c \in NestedCalls : frames[frames[c].parent].parent = 1

(***************************************************************************)
(* Properties of the statuses in the decision log (specification           *)
(* SpecPersist).                                                           *)
(***************************************************************************)
NonTerminalTopics == {"decision.received", "decision.executing"}

\* the events published so far on the non-terminal topics carry a summary
\* with status pending
NonTerminalArePending ==
    \A d \in DOMAIN pc : \A i \in 1..Len(events[d]) :
        events[d][i].topic \in NonTerminalTopics => events[d][i].data.status = "pending"

\* a step that publishes on a non-terminal topic leaves the log as it is
NonTerminalStoresNothing ==
    \A d \in DOMAIN pc :
        (/\ Len(events'[d]) = Len(events[d]) + 1
         /\ events'[d][Len(events'[d])].topic \in NonTerminalTopics)
        => decision_log' = decision_log

\* every record has one of the four terminal statuses, and the status of a
\* record is the status its execute call returned
StoredIsReturned ==
    \A r \in BagToSet(decision_log) :
        /\ r.status \in {"executed", "failed", "rejected", "deferred"}
        /\ \A d \in DOMAIN pc :
              (Returned(d) /\ ctx[d].trace_id = r.trace_id) => r.status = ret[d].status

\* C37: with the PersistenceEngine subscribed to decision.*, the
\* non-terminal events decision.received and decision.executing, whose
\* summaries have status pending, never create a record: every stored
\* record has status executed, failed, rejected or deferred, and the stored
\* status of a trace id equals the status execute returned for it.
C37_OnlyTerminalStored ==
    /\ []NonTerminalArePending
    /\ [][NonTerminalStoresNothing]_vars
    /\ []StoredIsReturned

\* with the engine receiving every decision topic, a call that published
\* decision.received and decision.executing has returned and its one record
\* holds the returned status
C37_Witness ==
    /\ Receiving
    /\ InSeq("persist", HandlersToCall(subscribers, "decision.received"))
    /\ \E d \in DOMAIN pc :
          /\ Returned(d)
          /\ Published(d, "decision.received")
          /\ Published(d, "decision.executing")
          /\ \E r \in BagToSet(decision_log) :
                RowsOf(ctx[d].trace_id) = {r} /\ r.status = ret[d].status

(***************************************************************************)
(* Properties of the scope of a write (specification SpecSerial).          *)
(***************************************************************************)
\* writer w's call is on trace_id and commits in this step
CommitsOn(w, trace_id) ==
    wpc[w] = "commit" /\ wpc'[w] = "done" /\ wop[w].id = trace_id

\* get_state of an id changes only in the commit of a call on that id, and
\* a commit changes get_state of no id but its own
OnlyOwnIdChanges ==
    \A trace_id \in StateIds :
        GetState(process_state', trace_id) # GetState(process_state, trace_id)
        => \E w \in DOMAIN wpc : CommitsOn(w, trace_id)

\* C39: state is scoped per id: update_state and save_state on one id leave
\* the result of get_state for every other id unchanged, under any
\* interleaving of writers on different ids.
C39_ScopedPerId == [][OnlyOwnIdChanges]_vars

\* a merging update_state on t1 and a write on t2 by different threads have
\* both committed: t1 holds its initial key and the first thread's value,
\* t2 the state the second thread wrote
C39_Witness ==
    \E w \in DOMAIN wpc, v \in DOMAIN wpc :
        /\ w # v
        /\ wpc[w] = "done" /\ wop[w].id = "t1" /\ wop[w].merge
        /\ wpc[v] = "done" /\ wop[v].id = "t2"
        /\ GetState(process_state, "t1") = Update(InitialRows["t1"], wop[w].new_state)
        /\ GetState(process_state, "t2") = wop[v].new_state
        /\ DOMAIN wop[v].new_state = {"a", "b"}
        /\ \A u \in DOMAIN wpc \ {w, v} : wpc[u] = "idle"

(***************************************************************************)
(* Properties of a failed update_state (specification SpecRollback).       *)
(***************************************************************************)
\* writer w's transaction ends in this step
EndsTxn(w) == InTxn(w) /\ ~InTxn(w)'

\* while a writer is in its transaction no step changes the table; its
\* transaction ends either in its commit, which stores state_to_save under
\* its id, or in RuntimeError, with the table as it is, the uncommitted
\* write dropped and the write lock free
FailureRollsBack ==
    \A w \in DOMAIN wpc :
        /\ (InTxn(w) /\ InTxn(w)') => process_state' = process_state
        /\ EndsTxn(w)
           => \/ /\ wpc[w] = "commit"
                 /\ wpc'[w] = "done"
                 /\ process_state' # process_state
                 /\ GetState(process_state', wop[w].id) = wcur[w]
              \/ /\ wpc'[w] = "raised"
                 /\ process_state' = process_state
                 /\ wtxn'[w] = <<>>
                 /\ db_lock' = 0

\* the write lock is held only by a writer inside its transaction, so a
\* writer waiting at BEGIN IMMEDIATE can go on as soon as none is inside
LockOnlyInTxn ==
    /\ db_lock # 0 => InTxn(db_lock)
    /\ \A w \in DOMAIN wpc : wpc[w] = "raised" => wtxn[w] = <<>>
    /\ (\A w \in DOMAIN wpc : ~InTxn(w))
       => \A v \in DOMAIN wpc : wpc[v] = "begin" => ENABLED BeginImmediate(v, EnvRollback)

\* C38: if update_state fails between opening its transaction and
\* committing, on a storage error while reading or writing, the transaction
\* is rolled back, the stored state of that id is exactly what it was
\* before the call, the write lock is released so that later updates
\* proceed, and the failure is reported to the caller as an error.
C38_FailedUpdateRollsBack ==
    /\ [][FailureRollsBack]_vars
    /\ []LockOnlyInTxn

\* one thread's update of t1 failed after its INSERT and another thread's
\* later update of t1 committed: the row holds the initial key and the
\* second thread's key only
C38_Witness ==
    \E w \in DOMAIN wpc, v \in DOMAIN wpc :
        /\ wpc[w] = "raised" /\ wop[w].id = "t1" /\ wop[w].merge
        /\ wcur[w] = Update(InitialRows["t1"], wop[w].new_state)
        /\ wpc[v] = "done" /\ wop[v].id = "t1" /\ wop[v].merge
        /\ GetState(process_state, "t1") = Update(InitialRows["t1"], wop[v].new_state)
        /\ db_lock = 0

(***************************************************************************)
(* Properties of process_decision around initialize (specification         *)
(* SpecRuntime).                                                           *)
(***************************************************************************)
\* process_decision call d is made in this step
Called(d) == pc[d] = "idle" /\ pc'[d] # "idle"

\* a call made without a pipeline returns the dict at once: no context is
\* opened, no trace id drawn and nothing published
RefusedWithoutPipeline ==
    \A d \in DOMAIN pc :
        (Called(d) /\ pipeline = NoPipeline)
        => /\ pc'[d] = "returned"
           /\ ret'[d] = NotInitialized
           /\ ctx' = ctx
           /\ nextTrace' = nextTrace
           /\ events' = events

\* a call made with a pipeline is the pipeline's execute, whether or not
\* the runtime is running: an input that fails validation is rejected,
\* any other opens a context and publishes decision.received
DelegatedWithPipeline ==
    \A d \in DOMAIN pc :
        (Called(d) /\ pipeline # NoPipeline)
        => IF WellFormed(input'[d])
           THEN /\ pc'[d] = "presence"
                /\ ctx'[d].trace_id = nextTrace
                /\ Published(d, "decision.received")'
           ELSE /\ pc'[d] = "returned"
                /\ ret'[d].kind = "invalid"
                /\ ret'[d].status = "rejected"

\* the pipeline, once built, stays
PipelineStays == pipeline # NoPipeline => pipeline' = pipeline

\* the calls that returned the dict have no trace id and no event, and the
\* others returned what the pipeline returned
RefusedHaveNoTrace ==
    \A d \in DOMAIN pc :
        Returned(d)
        => IF ret[d] = NotInitialized
           THEN ctx[d] = NoContext /\ events[d] = <<>>
           ELSE ret[d].kind \in {"summary", "invalid"}

\* C40: process_decision called before initialize has built the pipeline
\* returns status failed and the error "Runtime not initialized" without
\* raising, without creating a trace id and without publishing; after
\* initialize every call is delegated to the pipeline, also after shutdown.
C40_NotInitializedRefused ==
    /\ [][RefusedWithoutPipeline /\ DelegatedWithPipeline /\ PipelineStays]_vars
    /\ []RefusedHaveNoTrace

\* the first call was refused before initialize, the second ran through
\* the pipeline after it, and the third, made after shutdown, has opened
\* its context and is in the pipeline
C40_Witness ==
    /\ ret[1] = NotInitialized /\ Returned(1)
    /\ ret[2].kind = "summary" /\ ret[2].status = "executed" /\ Returned(2)
    /\ pipeline # NoPipeline
    /\ ~running
    /\ stopping = {}
    /\ pc[3] = "presence"
    /\ ctx[3].trace_id = 2

(***************************************************************************)
(* Properties of concurrent decisions (specification SpecConcurrentLive).  *)
(***************************************************************************)
\* the contexts opened so far have different trace ids
DistinctTraces ==
    \A d \in DOMAIN pc, e \in DOMAIN pc :
        (d # e /\ ctx[d] # NoContext /\ ctx[e] # NoContext)
        => ctx[d].trace_id # ctx[e].trace_id

\* a step in which call d does not move leaves d's context, events and
\* return value as they are
OthersUntouched ==
    \A d \in DOMAIN pc :
        pc'[d] = pc[d] => ctx'[d] = ctx[d] /\ events'[d] = events[d] /\ ret'[d] = ret[d]

\* what call d returned is the summary of its own context: it says failed
\* only if d's own handler raised and deferred only if d's own agent was
\* offline
OwnSummary ==
    \A d \in DOMAIN pc :
        Returned(d)
        => /\ ret[d] = GetSummary(ctx[d], input[d])
           /\ \A i \in 1..Len(events[d]) : events[d][i].data.trace_id = ctx[d].trace_id
           /\ (ret[d].status = "failed" <=> obs[d].handler = "RuntimeError")
           /\ (ret[d].status = "deferred" <=> obs[d].presence = "false")
           /\ (ret[d].status = "executed" <=> obs[d].handler = "return")
           /\ ret[d].metadata = ctx[d].metadata
           /\ MetadataGet(ret[d].metadata, "action") = input[d].action

HasOtherChar(chars) == \E i \in 1..Len(chars) : chars[i] \notin ClassChars

\* the verdict the ordered checks call for
Ordered(msg) ==
    IF msg.kind # "dict" THEN Verdict(FALSE, "E001")
    ELSE IF Absent \in {msg.type, msg.trace_id, msg.timestamp}
         THEN Verdict(FALSE, "E006")
    ELSE IF \/ {msg.type.kind, msg.trace_id.kind, msg.timestamp.kind} # {"str"}
            \/ Len(msg.trace_id.chars) < 8
            \/ HasOtherChar(msg.trace_id.chars)
         THEN Verdict(FALSE, "E007")
    ELSE IF msg.type.chars \notin EventsAll THEN Verdict(FALSE, "E002")
    ELSE IF \E v \in {msg.payload, msg.meta} : v # Absent /\ v.kind # "dict"
         THEN Verdict(FALSE, "E007")
    ELSE Verdict(TRUE, "None")

\* C32: validate_message reports the first failing check in a fixed order:
\* a message that is not a map gives E001; a missing type, trace_id or
\* timestamp E006; a type, trace_id or timestamp that is not a string, or a
\* trace_id shorter than 8 characters or with characters other than
\* letters, digits and hyphens, E007; an unregistered event type E002; a
\* payload or meta that is not a map E007; every other message is valid
\* with no error code.
C32_FirstFailingCheck ==
    validation.kind = "call" => validation.result = Ordered(validation.msg)

\* a message of a registered type whose trace id ends in a newline after
\* eight characters of the class has been found valid
C32_Witness ==
    /\ validation.kind = "call"
    /\ validation.msg.kind = "dict"
    /\ validation.msg.trace_id = Str(Uuid8 \o <<Newline>>)
    /\ validation.result = Verdict(TRUE, "None")

\* the trace id is clean up to one newline that ends it
EndsInNewline(msg) ==
    /\ msg.kind = "dict"
    /\ msg.trace_id.kind = "str"
    /\ Len(msg.trace_id.chars) > 8
    /\ msg.trace_id.chars[Len(msg.trace_id.chars)] = Newline
    /\ ~HasOtherChar(SubSeq(msg.trace_id.chars, 1, Len(msg.trace_id.chars) - 1))

\* the verdict is the ordered one for every message whose trace id does
\* not end in such a newline
OrderedButForNewline ==
    (validation.kind = "call" /\ ~EndsInNewline(validation.msg))
    => validation.result = Ordered(validation.msg)

\* a message with a short trace id and an unregistered type got E007, the
\* code of the earlier check
EarlierCheckWitness ==
    /\ validation.kind = "call"
    /\ validation.msg.kind = "dict"
    /\ validation.msg.type = Str(<<"nope">>)
    /\ validation.msg.trace_id = Str(SubSeq(Uuid8, 1, 7))
    /\ validation.msg.payload = NonStr("list")
    /\ validation.result = Verdict(FALSE, "E007")

(***************************************************************************)
(* Properties of the login lockout (specification SpecAuth).               *)
(***************************************************************************)
\* a login message is answered in this step
LoginStep == login'.n = login.n + 1

\* the fifth failed login of username was answered less than five minutes
\* ago, and no login of username has succeeded since
InLockout(username) ==
    /\ history[username].fifth_at # Never
    /\ utcnow - history[username].fifth_at < LockoutSeconds

Refused(reply) == reply = Answer("RATE_LIMITED", NoSession)

\* a login is refused as rate limited only in a lockout of its username
RefusedOnlyInLockout ==
    (LoginStep /\ login'.answer.code = "RATE_LIMITED")
    => (login'.username # "" /\ InLockout(login'.username))

\* a login leaves the table entry and the lockout of every other username
\* as they were
OthersUnaffected ==
    LoginStep =>
        \A u \in Usernames \ {login'.username} :
            /\ login_attempts'[u] = login_attempts[u]
            /\ history'[u] = history[u]
            /\ InLockout(u)' = InLockout(u)

\* a successful login leaves its username with no failure counted
SuccessClears ==
    (LoginStep /\ login'.answer.session # NoSession)
    => login_attempts'[login'.username] = NoEntry

RefusedRightPasswordWitness ==
    /\ login.n = 6
    /\ login.username = "admin"
    /\ login.password = Users["admin"].password
    /\ Refused(login.answer)
    /\ login.at - history["admin"].fifth_at = TickSeconds

\* four failures, a success and a fifth failure: the login after them is
\* answered on its password, not refused
ClearedWitness ==
    /\ login.n = 7
    /\ login.username = "admin"
    /\ login.answer.session = Session("admin")
    /\ history["admin"].failed = 0
    /\ login_attempts["admin"] = NoEntry

\* a login of a locked username that carries no password has been answered
\* CREDENTIALS_MISSING
MissingPasswordWitness ==
    /\ login.n > 0
    /\ login.username = "admin"
    /\ login.password = ""
    /\ InLockout("admin")
    /\ login.answer = Answer("CREDENTIALS_MISSING", NoSession)

\* a lock that has lasted five minutes has expired: the login is answered
\* on its password
ExpiredWitness ==
    /\ login.n = 6
    /\ login.username = "admin"
    /\ history["admin"].failed = 6
    /\ login.at - history["admin"].fifth_at = LockoutSeconds
    /\ login.answer.code = "INVALID_CREDENTIALS"
    /\ login_attempts["admin"] = [attempts |-> 1, last_time |-> LockoutSeconds]

====
